---------------------------- MODULE Spec2Model ----------------------------
(***************************************************************************)
(* A model of the focus-lock core of storm-control (MoffittLab fork):      *)
(*                                                                         *)
(*   - the point-grey lock cameras (pointGreyLockCamera.py): frame         *)
(*     backlog handling and the REPS-sized sample accumulator of the       *)
(*     AFLockCamera, SSLockCamera and AxiconLockCamera analyzers;          *)
(*   - the Zaber focus module (zaberFocusModule.py) and the Zaber stage    *)
(*     polling thread (zaberZModule.py), on top of the buffered            *)
(*     functionality of hardwareModule.py.                                 *)
(*                                                                         *)
(* Numbers that numpy keeps as floats are exact rationals here; nan and    *)
(* +-inf are one value, NaN, that absorbs every operation.                 *)
(***************************************************************************)
EXTENDS Integers, Sequences, FiniteSets, TLC

VARIABLES
    \* ---- lock camera (pointGreyLockCamera.py) ----
    parameters,     \* the "parameters" object handed to the constructor
    cam_state,      \* "new", "failed", "constructed", "running"
    cam,            \* the camera object's fields (self.*), NoCam before __init__
    cameraUpdate,   \* the last dict emitted on the cameraUpdate signal
    stream,         \* the frames the camera delivers, as a cycle (<<>>: any)
    obs,            \* observer of the camera: what was handed, analysed, emitted
    \* ---- Zaber modules (zaberFocusModule.py, zaberZModule.py) ----
    mutex,          \* the QMutex objects: Free or the context holding it
    buf,            \* the buffered functionalities: lanes and queues
    fine,           \* ZaberFineFocusBufferedFunctionality: self.*
    coarse,         \* ZaberCoarseFocusBufferedFunctionality: self.*
    z_stage,        \* the stage driver of ZaberZController
    ctl,            \* ZaberZController: self.* and the film it is in
    xy,             \* ZaberXYStageFunctionality: self.*
    poll,           \* ZaberPollingThread: place in run() and its locals
    log,            \* observer of the stage side: calls, submissions, runs
    \* ---- LockCamera as a thread (pointGreyLockCamera.py) ----
    qthread,        \* run(), params_mutex, the staged AOI, the camera, callers
    \* ---- focus lock display (lockDisplay.py) ----
    display,        \* a QStatusDisplay widget: self.* and what it painted last
    hal_module      \* the HAL module a behaviour follows

cam_vars == <<parameters, cam_state, cam, cameraUpdate, stream, obs>>

stage_vars == <<mutex, buf, fine, coarse, z_stage, ctl, xy, poll, log>>

vars == <<parameters, cam_state, cam, cameraUpdate, stream, obs,
          mutex, buf, fine, coarse, z_stage, ctl, xy, poll, log, qthread,
          display, hal_module>>

-----------------------------------------------------------------------------
(* Bounds of the model.                                                    *)

\* largest "reps" parameter tried
MaxReps == 2
\* longest burst whose frames are chosen freely
MaxShort == 2
\* frames handed over in a behaviour of freely chosen bursts
MaxFrames == 5
\* how far a long burst may exceed max_backlog
MaxOver == 1
\* calls of analyze in a behaviour with long bursts
MaxCalls == 2
\* requests made of ZaberZController and its functionalities in a behaviour:
\* moves, 'new parameters' and 'start film' messages
MaxOps == 3
\* ticks of the update timer that find no query under way
MaxTicks == 2
\* the largest value tried for the limits self.minimum and self.maximum
MaxLimit == 4
\* calls of adjustAOI and adjustZeroDist in a behaviour
MaxAdjust == 2
\* bursts the acquisition worker fetches in a behaviour
MaxBursts == 2
\* the largest threshold of a display tried
MaxValue == 3

-----------------------------------------------------------------------------
(* Exact rational arithmetic standing for numpy's float arithmetic.        *)

RECURSIVE GCD(_, _)
GCD(a, b) == IF b = 0 THEN a ELSE GCD(b, a % b)

Abs(a) == IF a < 0 THEN -a ELSE a

\* nan / inf: what a float division by zero evaluates to
NaN == [n |-> 0, d |-> 0]

IsNaN(r) == r.d = 0

Norm(n, d) ==
    IF d = 0 THEN NaN
    ELSE LET g == GCD(Abs(n), Abs(d))
             s == IF d < 0 THEN -1 ELSE 1
         IN  [n |-> (s * n) \div g, d |-> (s * d) \div g]

R(i) == [n |-> i, d |-> 1]

RAdd(a, b) == IF IsNaN(a) \/ IsNaN(b) THEN NaN
              ELSE Norm(a.n * b.d + b.n * a.d, a.d * b.d)

RSub(a, b) == IF IsNaN(a) \/ IsNaN(b) THEN NaN
              ELSE Norm(a.n * b.d - b.n * a.d, a.d * b.d)

RMul(a, b) == IF IsNaN(a) \/ IsNaN(b) THEN NaN
              ELSE Norm(a.n * b.n, a.d * b.d)

\* float division: a zero divisor gives nan or inf, never an exception
RDiv(a, b) == IF IsNaN(a) \/ IsNaN(b) THEN NaN
              ELSE Norm(a.n * b.d, a.d * b.n)

\* a > b; every comparison with nan is false
RGt(a, b) == /\ ~IsNaN(a)
             /\ ~IsNaN(b)
             /\ a.n * b.d > b.n * a.d

RECURSIVE RSum(_)
RSum(s) == IF s = <<>> THEN R(0) ELSE RAdd(Head(s), RSum(Tail(s)))

\* numpy.mean of a 1-d array; the mean of an empty array is nan
RMean(s) == RDiv(RSum(s), R(Len(s)))

\* arr[mask] of numpy: the entries of arr (indexed 0..n-1) whose mask is set,
\* in index order
RECURSIVE MaskedFrom(_, _, _, _)
MaskedFrom(arr, mask, i, n) ==
    IF i >= n THEN <<>>
    ELSE (IF mask[i] THEN <<arr[i]>> ELSE <<>>) \o MaskedFrom(arr, mask, i + 1, n)

Masked(arr, mask, n) == MaskedFrom(arr, mask, 0, n)

\* the whole array as a sequence
Whole(arr, n) == MaskedFrom(arr, [i \in 0 .. (n - 1) |-> TRUE], 0, n)

\* numpy.count_nonzero of a boolean array
count_nonzero(mask, n) == Cardinality({i \in 0 .. (n - 1) : mask[i]})

\* numpy.zeros(n)
zeros(n) == [i \in 0 .. (n - 1) |-> R(0)]

\* numpy.zeros(n, dtype = numpy.bool)
zeros_bool(n) == [i \in 0 .. (n - 1) |-> FALSE]

-----------------------------------------------------------------------------
(* The lock cameras: construction.                                         *)

Variants == {"AF", "SS", "Axicon"}

\* self.max_backlog = 20
max_backlog == 20

\* the object before __init__ has run, or after __init__ has raised
NoCam == [none |-> TRUE]

\* no dict emitted yet
NoUpdate == [none |-> TRUE]

\* LockCamera.__init__: the counters, the running flag and zero_dist
LockCameraInit(p) ==
    [n_analyzed |-> 0,
     n_dropped |-> 0,
     running |-> FALSE,
     zero_dist |-> p.zero_dist]

\* AFLockCamera.__init__ up to its closing assert
AFLockCameraInit(p) ==
    LockCameraInit(p) @@
    [cnt |-> 0,
     max_backlog |-> max_backlog,
     min_good |-> p.min_good,
     reps |-> p.reps,
     sum_scale |-> p.sum_scale,
     sum_zero |-> p.sum_zero,
     good |-> zeros_bool(p.reps),
     mag |-> zeros(p.reps),
     x_off |-> zeros(p.reps),
     y_off |-> zeros(p.reps)]

\* SSLockCamera.__init__ up to its closing assert
SSLockCameraInit(p) ==
    LockCameraInit(p) @@
    [cnt |-> 0,
     max_backlog |-> max_backlog,
     min_good |-> p.min_good,
     offset |-> p.offset,
     reps |-> p.reps,
     sum_scale |-> p.sum_scale,
     sum_zero |-> p.sum_zero,
     good |-> zeros_bool(p.reps),
     mag |-> zeros(p.reps),
     x_off |-> zeros(p.reps),
     y_off |-> zeros(p.reps)]

\* AxiconLockCamera.__init__ up to its closing assert
AxiconLockCameraInit(p) ==
    LockCameraInit(p) @@
    [cnt |-> 0,
     max_backlog |-> max_backlog,
     min_good |-> p.min_good,
     reps |-> p.reps,
     sum_threshold |-> p.sum_threshold,
     camera_background |-> p.camera_background,
     good |-> zeros_bool(p.reps),
     mag |-> zeros(p.reps),
     x1_off |-> zeros(p.reps),
     y1_off |-> zeros(p.reps),
     x2_off |-> zeros(p.reps),
     y2_off |-> zeros(p.reps),
     offset |-> zeros(p.reps),
     roi1 |-> p.roi1,
     roi2 |-> p.roi2]

NewCamera(p) ==
    CASE p.variant = "AF" -> AFLockCameraInit(p)
      [] p.variant = "SS" -> SSLockCameraInit(p)
      [] p.variant = "Axicon" -> AxiconLockCameraInit(p)

\* the assert the constructor is missing when the check is left out
RepsAssertMissing(c) == TRUE

\* assert (self.reps >= self.min_good), "'reps' must be >= 'min_good'."
RepsAssert(c) == c.reps >= c.min_good

\* AFLockCamera(...) / SSLockCamera(...) / AxiconLockCamera(...): the object
\* exists for its creator only when __init__ returns; a failed assert raises
\* AssertionError out of the constructor.
Construct ==
    /\ cam_state = "new"
    /\ IF RepsAssert(NewCamera(parameters))
       THEN /\ cam' = NewCamera(parameters)
            /\ cam_state' = "constructed"
       ELSE /\ cam' = NoCam
            /\ cam_state' = "failed"
    /\ UNCHANGED <<parameters, cameraUpdate, stream, obs>>
    /\ UNCHANGED <<stage_vars, hal_module, qthread, display>>

\* startCamera: the thread starts, run() starts the acquisition and sets
\* self.running
startCamera ==
    /\ cam_state = "constructed"
    /\ cam' = [cam EXCEPT !.running = TRUE]
    /\ cam_state' = "running"
    /\ UNCHANGED <<parameters, cameraUpdate, stream, obs>>
    /\ UNCHANGED <<stage_vars, hal_module, qthread, display>>

-----------------------------------------------------------------------------
(* The frames and the configurations tried.                                *)

\* what the peak finders report for a frame (AF: afc.findOffsetU16NM, SS:
\* lpf.findFitPeak and max - mean): two frames with a fit, one without
SpotFrames ==
    {[x_off |-> R(1), y_off |-> R(2), success |-> TRUE, mag |-> R(3)],
     [x_off |-> R(3), y_off |-> R(5), success |-> TRUE, mag |-> R(6)],
     [x_off |-> R(7), y_off |-> R(9), success |-> FALSE, mag |-> R(11)]}

\* a frame given by its rows, indexed from 0 as numpy does
Pixels(rows) ==
    [i \in 0 .. (Len(rows) - 1) |->
        [j \in 0 .. (Len(rows[1]) - 1) |-> rows[i + 1][j + 1]]]

\* 2 x 4 frames for the axicon camera: two with light in both ROIs, one with
\* ROI 1 at the background level
AxiconFrames ==
    {Pixels(<<<<3, 1, 1, 3>>, <<1, 1, 1, 3>>>>),
     Pixels(<<<<1, 5, 5, 1>>, <<1, 5, 1, 1>>>>),
     Pixels(<<<<1, 1, 3, 3>>, <<1, 1, 3, 3>>>>)}

FramesOf(variant) == IF variant = "Axicon" THEN AxiconFrames ELSE SpotFrames

\* "roi1" and "roi2" as parsed: x0, x1, y0, y1
Rois == {<<0, 2, 0, 2>>, <<2, 4, 0, 2>>}

Backgrounds == {1}

SumThresholds == {-1, 0, 1}

\* the configurations tried; reps < min_good is among them
Configurations ==
    {[variant |-> v, reps |-> r, min_good |-> m,
      sum_scale |-> R(2), sum_zero |-> R(1), zero_dist |-> R(1), offset |-> 0,
      sum_threshold |-> t, camera_background |-> 1,
      roi1 |-> <<0, 2, 0, 2>>, roi2 |-> <<2, 4, 0, 2>>] :
        v \in Variants, r \in 1 .. MaxReps, m \in 1 .. (MaxReps + 1),
        t \in SumThresholds}

\* a parameter the variant does not read takes one value only
Configured(p) == p.variant # "Axicon" => p.sum_threshold = 0

-----------------------------------------------------------------------------
(* The lock cameras: analyze(frames, frame_size).                          *)
(*                                                                         *)
(* A frame step takes and returns a bundle [cam, upd, obs]: the object,    *)
(* the last dict emitted on cameraUpdate, and the observer.  elt is one    *)
(* element of the burst, [idx, data]: idx is its place in the burst as     *)
(* handed over, data what the analyzer reads from the frame.               *)

\* frames[-self.max_backlog:] taken at the wrong end
KeepOldest(frames) ==
    IF Len(frames) > max_backlog
    THEN SubSeq(frames, 1, max_backlog)
    ELSE frames

\* if (lf > self.max_backlog): frames = frames[-self.max_backlog:]
KeepBacklog(frames) ==
    IF Len(frames) > max_backlog
    THEN SubSeq(frames, Len(frames) - max_backlog + 1, Len(frames))
    ELSE frames

\* the dropped frames counted one short
CountDroppedShort(c, lf) ==
    IF lf > c.max_backlog
    THEN [c EXCEPT !.n_dropped = @ + lf - c.max_backlog - 1]
    ELSE c

\* if (lf > self.max_backlog): self.n_dropped += lf - self.max_backlog
CountDropped(c, lf) ==
    IF lf > c.max_backlog
    THEN [c EXCEPT !.n_dropped = @ + lf - c.max_backlog]
    ELSE c

\* the batch test off by one
BadBatchLax(c) == count_nonzero(c.good, c.reps) + 1 < c.min_good

\* if (numpy.count_nonzero(self.good) < self.min_good)
BadBatch(c) == count_nonzero(c.good, c.reps) < c.min_good

\* a mean taken over every slot, good or not
MeanOfAll(arr, c) == RMean(Whole(arr, c.reps))

\* numpy.mean(arr[self.good])
MeanOfGood(arr, c) == RMean(Masked(arr, c.good, c.reps))

\* the counter left where it is
KeepCnt(c) == c

\* self.cnt = 0
ResetCnt(c) == [c EXCEPT !.cnt = 0]

\* the observer on an emitted dict: one more event, the batch that made it
Emitted(o) ==
    [o EXCEPT !.n_emitted = @ + 1,
              !.last_batch = o.cur_batch,
              !.cur_batch = <<>>]

\* the observer on a frame taken from the burst, with its estimate
Analysed(o, elt, est) ==
    [o EXCEPT !.analysed = Append(@, elt.idx),
              !.cur_batch = Append(@, est)]

\* every estimate stored in the first slot
SpotStoreFirst(c, r) ==
    [c EXCEPT !.n_analyzed = @ + 1,
              !.good[0] = r.success,
              !.mag[0] = r.mag,
              !.x_off[0] = r.x_off,
              !.y_off[0] = r.y_off,
              !.cnt = @ + 1]

\* self.good[self.cnt] = success; ...; self.cnt += 1 (AF and SS cameras)
SpotStore(c, r) ==
    [c EXCEPT !.n_analyzed = @ + 1,
              !.good[c.cnt] = r.success,
              !.mag[c.cnt] = r.mag,
              !.x_off[c.cnt] = r.x_off,
              !.y_off[c.cnt] = r.y_off,
              !.cnt = @ + 1]

\* the estimate of one frame, as the observer keeps it
SpotEstimate(r) ==
    [good |-> r.success, mag |-> r.mag, x_off |-> r.x_off, y_off |-> r.y_off]

\* AFLockCamera.analyze, "if (self.cnt == self.reps)": the dict emitted for
\* the full buffers of c
AFDict(c) ==
    IF BadBatch(c)
    THEN [is_good |-> FALSE,
          offset |-> R(0),
          sum |-> R(0),
          x_off |-> R(0),
          y_off |-> R(0)]
    ELSE [is_good |-> TRUE,
          offset |-> RSub(MeanOfGood(c.y_off, c), c.zero_dist),
          sum |-> RSub(RMul(c.sum_scale, MeanOfGood(c.mag, c)), c.sum_zero),
          x_off |-> MeanOfGood(c.x_off, c),
          y_off |-> RSub(MeanOfGood(c.y_off, c), c.zero_dist)]

\* SSLockCamera.analyze, "if (self.cnt == self.reps)": the sum is set from
\* numpy.mean(self.mag) when the dict is built, before the batch is judged
SSDict(c) ==
    IF BadBatch(c)
    THEN [is_good |-> FALSE,
          offset |-> R(0),
          sum |-> RSub(RMul(c.sum_scale, RMean(Whole(c.mag, c.reps))), c.sum_zero),
          x_off |-> R(0),
          y_off |-> R(0)]
    ELSE [is_good |-> TRUE,
          offset |-> RSub(MeanOfGood(c.y_off, c), c.zero_dist),
          sum |-> RSub(RMul(c.sum_scale, RMean(Whole(c.mag, c.reps))), c.sum_zero),
          x_off |-> MeanOfGood(c.x_off, c),
          y_off |-> RSub(MeanOfGood(c.y_off, c), c.zero_dist)]

\* the end of a frame step: with the buffers full the dict is emitted and
\* the counter reset, otherwise nothing is emitted
FrameDone(c, upd, o, dict) ==
    IF c.cnt = c.reps
    THEN [cam |-> ResetCnt(c), upd |-> dict, obs |-> Emitted(o)]
    ELSE [cam |-> c, upd |-> upd, obs |-> o]

\* AFLockCamera.analyze: the body of "for elt in frames"; elt.data is what
\* afc.findOffsetU16NM returns for the frame, [x_off, y_off, success, mag]
AFAnalyzeFrame(s, elt) ==
    FrameDone(SpotStore(s.cam, elt.data), s.upd,
              Analysed(s.obs, elt, SpotEstimate(elt.data)),
              AFDict(SpotStore(s.cam, elt.data)))

\* SSLockCamera.analyze: the body of "for elt in frames"; elt.data is
\* [mag, x_off, y_off, success]: mag is max - mean of the frame less
\* self.offset, the rest what lpf.findFitPeak returns for it
SSAnalyzeFrame(s, elt) ==
    FrameDone(SpotStore(s.cam, elt.data), s.upd,
              Analysed(s.obs, elt, SpotEstimate(elt.data)),
              SSDict(SpotStore(s.cam, elt.data)))

\* frame[roi[2]:roi[3], roi[0]:roi[1]].astype(float) - self.camera_background;
\* roi is the parsed "x0,x1,y0,y1" list, frame[i][j] the pixel of row i, column j
CropImage(frame, roi, background) ==
    LET h == roi[4] - roi[3]
        w == roi[2] - roi[1]
    IN  [h |-> h,
         w |-> w,
         px |-> [i \in 0 .. (h - 1) |->
                    [j \in 0 .. (w - 1) |->
                        R(frame[roi[3] + i][roi[1] + j] - background)]]]

\* numpy.average(image, axis=0): the mean of each column
average_axis0(image) ==
    [j \in 0 .. (image.w - 1) |->
        RMean(Whole([i \in 0 .. (image.h - 1) |-> image.px[i][j]], image.h))]

\* numpy.average(image, axis=1): the mean of each row
average_axis1(image) ==
    [i \in 0 .. (image.h - 1) |->
        RMean(Whole([j \in 0 .. (image.w - 1) |-> image.px[i][j]], image.w))]

\* numpy.sum(data_av)
sum_av(data_av, size) == RSum(Whole(data_av, size))

\* numpy.sum(numpy.arange(data_av.size) * data_av)
moment_av(data_av, size) ==
    RSum(Whole([k \in 0 .. (size - 1) |-> RMul(R(k), data_av[k])], size))

\* [sum, x_off, y_off] from the column means av0 and the row means av1:
\* both moments are divided by the sum of the column means
Centroid(av0, w, av1, h) ==
    [sum |-> sum_av(av0, w),
     x_off |-> RDiv(moment_av(av0, w), sum_av(av0, w)),
     y_off |-> RDiv(moment_av(av1, h), sum_av(av0, w))]

\* the centre of mass of one image
CenterOfMass(image) ==
    Centroid(average_axis0(image), image.w, average_axis1(image), image.h)

\* CenterOfMass of every frame, ROI and background tried
CenterOfMassOf ==
    [f \in AxiconFrames, roi \in Rois, bg \in Backgrounds |->
        CenterOfMass(CropImage(f, roi, bg))]

\* sum > self.sum_threshold
AboveThreshold(total, c) == RGt(total, R(c.sum_threshold))

\* what one frame contributes: good when both sums pass the threshold, the
\* magnitude sum1 + sum2, the four coordinates and offset = x1_off - x2_off
AxiconResult(c, m1, m2) ==
    [good |-> AboveThreshold(m1.sum, c) /\ AboveThreshold(m2.sum, c),
     mag |-> RAdd(m1.sum, m2.sum),
     sum1 |-> m1.sum,
     sum2 |-> m2.sum,
     x1_off |-> m1.x_off,
     y1_off |-> m1.y_off,
     x2_off |-> m2.x_off,
     y2_off |-> m2.y_off,
     offset |-> RSub(m1.x_off, m2.x_off)]

\* the centres of mass of the two ROIs of a frame and what is stored of them
AxiconEstimate(c, frame) ==
    AxiconResult(c, CenterOfMassOf[frame, c.roi1, c.camera_background],
                    CenterOfMassOf[frame, c.roi2, c.camera_background])

\* self.good[self.cnt] = ...; ...; self.cnt += 1 (axicon camera)
AxiconStore(c, e) ==
    [c EXCEPT !.n_analyzed = @ + 1,
              !.good[c.cnt] = e.good,
              !.mag[c.cnt] = e.mag,
              !.x1_off[c.cnt] = e.x1_off,
              !.y1_off[c.cnt] = e.y1_off,
              !.x2_off[c.cnt] = e.x2_off,
              !.y2_off[c.cnt] = e.y2_off,
              !.offset[c.cnt] = e.offset,
              !.cnt = @ + 1]

\* AxiconLockCamera.analyze, "if (self.cnt == self.reps)": the dict emitted
\* for the full buffers of c
AxiconDict(c) ==
    IF BadBatch(c)
    THEN [is_good |-> FALSE,
          offset |-> R(0),
          sum |-> R(0),
          x_off1 |-> R(0),
          y_off1 |-> R(0),
          x_off2 |-> R(0),
          y_off2 |-> R(0)]
    ELSE [is_good |-> TRUE,
          offset |-> MeanOfGood(c.offset, c),
          sum |-> MeanOfGood(c.mag, c),
          x_off1 |-> RAdd(MeanOfGood(c.x1_off, c), R(c.roi1[1])),
          y_off1 |-> RAdd(MeanOfGood(c.y1_off, c), R(c.roi1[3])),
          x_off2 |-> RAdd(MeanOfGood(c.x2_off, c), R(c.roi2[1])),
          y_off2 |-> RAdd(MeanOfGood(c.y2_off, c), R(c.roi2[3]))]

AxiconFrameStored(s, elt, e) ==
    FrameDone(AxiconStore(s.cam, e), s.upd, Analysed(s.obs, elt, e),
              AxiconDict(AxiconStore(s.cam, e)))

\* AxiconLockCamera.analyze: the body of "for elt in frames"; elt.data is
\* the frame's pixels
AxiconAnalyzeFrame(s, elt) ==
    AxiconFrameStored(s, elt, AxiconEstimate(s.cam, elt.data))

AnalyzeFrame(s, elt) ==
    CASE parameters.variant = "AF" -> AFAnalyzeFrame(s, elt)
      [] parameters.variant = "SS" -> SSAnalyzeFrame(s, elt)
      [] parameters.variant = "Axicon" -> AxiconAnalyzeFrame(s, elt)

\* for elt in frames: ...
RECURSIVE AnalyzeLoop(_, _)
AnalyzeLoop(s, frames) ==
    IF frames = <<>> THEN s
    ELSE CHOOSE r \in {AnalyzeLoop(t, Tail(frames)) :
                           t \in {AnalyzeFrame(s, Head(frames))}} : TRUE

\* the observer on a call of analyze with lf frames
Handed(o, lf) ==
    [o EXCEPT !.n_handed = @ + lf, !.last_lf = lf, !.analysed = <<>>]

\* analyze(frames, frame_size) of the three cameras: the backlog is cut to
\* max_backlog, then every remaining frame is analysed in order
analyze(s, frames) ==
    AnalyzeLoop([cam |-> CountDropped(s.cam, Len(frames)),
                 upd |-> s.upd,
                 obs |-> Handed(s.obs, Len(frames))],
                KeepBacklog(frames))

-----------------------------------------------------------------------------
(* The lock cameras: the run loop's call of analyze.                       *)

\* bursts of up to MaxShort frames, each frame chosen freely
ShortBursts(F) == UNION {[1 .. n -> F] : n \in 0 .. MaxShort}

\* each frame with its place in the burst
Tagged(b) == [i \in 1 .. Len(b) |-> [idx |-> i, data |-> b[i]]]

\* cam', cameraUpdate' and obs' after analyze(frames, frame_size)
Analyzed(frames) ==
    \E s \in {analyze([cam |-> cam, upd |-> cameraUpdate,
                       obs |-> [obs EXCEPT !.n_calls = @ + 1]],
                      Tagged(frames))} :
        /\ cam' = s.cam
        /\ cameraUpdate' = s.upd
        /\ obs' = s.obs

\* run(): [frames, frame_size] = self.camera.getFrames();
\*        self.analyze(frames, frame_size)
\* with a short burst of any frames
Analyze ==
    /\ cam_state = "running"
    /\ stream = <<>>
    /\ \E b \in ShortBursts(FramesOf(parameters.variant)) :
          /\ b # <<>>
          /\ obs.n_handed + Len(b) <= MaxFrames
          /\ Analyzed(b)
    /\ UNCHANGED <<parameters, cam_state, stream>>
    /\ UNCHANGED <<stage_vars, hal_module, qthread, display>>

\* the burst lengths tried on a stream: short ones, and from max_backlog up
BurstLengths == (0 .. MaxShort) \cup (max_backlog .. (max_backlog + MaxOver))

\* the next n frames of the stream after k frames
NextFrames(k, n) == [i \in 1 .. n |-> stream[((k + i - 1) % Len(stream)) + 1]]

\* the same two lines of run(), with the next frames of the stream; the
\* burst may be longer than max_backlog
AnalyzeStream ==
    /\ cam_state = "running"
    /\ stream # <<>>
    /\ obs.n_calls < MaxCalls
    /\ \E n \in BurstLengths : Analyzed(NextFrames(obs.n_handed, n))
    /\ UNCHANGED <<parameters, cam_state, stream>>
    /\ UNCHANGED <<stage_vars, hal_module, qthread, display>>

NoObs ==
    [n_handed |-> 0, n_calls |-> 0, n_emitted |-> 0, last_lf |-> 0,
     analysed |-> <<>>, cur_batch |-> <<>>, last_batch |-> <<>>]

-----------------------------------------------------------------------------
(* The Zaber focus module and the Zaber stage module: the objects.         *)
(*                                                                         *)
(* ZaberZController owns one stage driver and two buffered                 *)
(* functionalities, "coarse" and "fine", built with its controller_mutex.  *)
(* ZaberZStage owns another stage driver and one functionality, "xy",      *)
(* built with a mutex of its own, which the functionality hands to its     *)
(* polling thread.  hardwareModule.BufferedFunctionality is not part of    *)
(* the sources at hand: its two submission modes follow the description    *)
(* of the command queue, one lane for each mode in every functionality.    *)

Functionalities == {"coarse", "fine", "xy"}

Modes == {"must", "maybe"}

\* a value that may be None: None itself, or Some(v)
None == <<>>

Some(v) == <<v>>

\* ZaberZController.__init__: both functionalities get
\* device_mutex = self.controller_mutex; ZaberZStage.__init__ builds its
\* functionality with device_mutex = QtCore.QMutex()
PrivateMutex(f) == f

device_mutex(f) ==
    IF f \in {"coarse", "fine"} THEN "controller_mutex" ELSE "stage_mutex"

Mutexes == {device_mutex(f) : f \in Functionalities}

\* self.minimum = self.getMinimum(); self.maximum = self.getMaximum(), as
\* configured for the fine functionality of ZaberZController
minimum == 0

maximum == 100

\* the positions asked of goAbsolute and the steps asked of goRelative
Requests == {-5, 42, 150}

Deltas == {-60, 60}

\* the positions asked of the coarse functionality
CoarseRequests == {7}

\* the "z_offsets" strings of a 'new parameters' message, as parsed
Offsets == {<<>>, <<1>>}

\* the answers of stage.isStageMoving() and the sx of stage.getPosition()
StatusResponses == {"MOVING", "IDLE", "ERROR"}

PositionResponses == {None, Some(0)}

\* a call of the stage driver that does not return: it raises
Raised == "raised"

\* a command: {task, args, ret_signal}; args is the list of arguments, each
\* a position that may be None or an array of offsets; ret_signal is the
\* name of the signal, "" for none
Cmd(task, args, ret_signal) ==
    [task |-> task, args |-> args, ret_signal |-> ret_signal]

NoCmd == Cmd("none", <<>>, "")

\* the mutex is free, or held by a lane <<f, l>> or by <<"poll">>
Free == <<>>

IdleLane == [pc |-> "idle", cmd |-> NoCmd]

\* a functionality with nothing submitted
IdleBuffer ==
    [lane |-> [m \in Modes |-> IdleLane],
     must_queue |-> <<>>,
     next_request |-> NoCmd]

\* mustRun(task, args, ret_signal): the command joins the ordered queue of
\* its functionality; with the lane idle it is the next one to run
mustRun(b, f, cmd) ==
    IF b[f].lane["must"].pc = "idle"
    THEN [b EXCEPT ![f].lane["must"] = [pc |-> "lock", cmd |-> cmd]]
    ELSE [b EXCEPT ![f].must_queue = Append(@, cmd)]

\* maybeRun putting every command in the queue
maybeRunQueued(b, f, cmd, run_next) ==
    IF b[f].lane["must"].pc = "idle"
    THEN [b EXCEPT ![f].lane["must"] = [pc |-> "lock", cmd |-> cmd]]
    ELSE [b EXCEPT ![f].must_queue = Append(@, cmd)]

\* maybeRun(task, args, ret_signal, run_next): runs if the functionality is
\* idle; if it is busy the command replaces the one waiting (run_next) or
\* is discarded
maybeRun(b, f, cmd, run_next) ==
    IF b[f].lane["maybe"].pc = "idle"
    THEN [b EXCEPT ![f].lane["maybe"] = [pc |-> "lock", cmd |-> cmd]]
    ELSE IF run_next
         THEN [b EXCEPT ![f].next_request = cmd]
         ELSE b

\* the lane of mode l of functionality f once its command is done: the next
\* command of the lane, if any, is taken up
Finished(b, f, l) ==
    IF l = "must"
    THEN IF b[f].must_queue # <<>>
         THEN [b EXCEPT ![f].lane[l] = [pc |-> "lock", cmd |-> Head(b[f].must_queue)],
                        ![f].must_queue = Tail(@)]
         ELSE [b EXCEPT ![f].lane[l] = IdleLane]
    ELSE IF b[f].next_request # NoCmd
         THEN [b EXCEPT ![f].lane[l] = [pc |-> "lock", cmd |-> b[f].next_request],
                        ![f].next_request = NoCmd]
         ELSE [b EXCEPT ![f].lane[l] = IdleLane]

\* the commands handed to mustRun that functionality f has yet to run, the
\* one in hand first
MustPending(f) ==
    (IF buf[f].lane["must"].pc = "idle" THEN <<>> ELSE <<buf[f].lane["must"].cmd>>)
        \o buf[f].must_queue

\* the observer notes a command handed to mustRun or maybeRun
Submitted(o, f, mode, cmd) ==
    [o EXCEPT !.last_submit = [f |-> f, mode |-> mode, cmd |-> cmd],
              !.must_log[f] = IF mode = "must" THEN Append(@, cmd) ELSE @]

\* the observer notes a call of an operation
Called(o, op, args) == [o EXCEPT !.last_call = [op |-> op, args |-> args]]

-----------------------------------------------------------------------------
(* ZaberFineFocusBufferedFunctionality and its coarse sibling.             *)

\* restrictZPos with the upper limit left out
restrictZPosOpen(z_pos) == IF z_pos < fine.minimum THEN fine.minimum ELSE z_pos

\* restrictZPos taking one step towards the range
restrictZPosStep(z_pos) ==
    IF z_pos < fine.minimum THEN z_pos + 1
    ELSE IF z_pos > fine.maximum THEN z_pos - 1 ELSE z_pos

\* restrictZPos(z_pos): the two tests in the order of the code, against
\* self.minimum and self.maximum
restrictZPos(z_pos) ==
    IF (IF z_pos < fine.minimum THEN fine.minimum ELSE z_pos) > fine.maximum
    THEN fine.maximum
    ELSE (IF z_pos < fine.minimum THEN fine.minimum ELSE z_pos)

\* a move to z_pos as it was asked for
MoveCmdRaw(z_pos) == Cmd("zMoveTo", <<Some(z_pos)>>, "zStagePosition")

\* the command goAbsolute(z_pos) hands to maybeRun
MoveCmd(z_pos) == Cmd("zMoveTo", <<Some(restrictZPos(z_pos))>>, "zStagePosition")

\* goAbsolute(z_pos): maybeRun(task = self.zMoveTo, args = [z_pos],
\* ret_signal = self.zStagePosition, run_next = False) after restrictZPos
goAbsoluteCall(z_pos, o) ==
    /\ buf' = maybeRun(buf, "fine", MoveCmd(z_pos), FALSE)
    /\ log' = Submitted([o EXCEPT !.commanded = MoveCmd(z_pos).args[1],
                                  !.quiet_since_start = FALSE,
                                  !.undisturbed = FALSE],
                        "fine", "maybe", MoveCmd(z_pos))

goAbsolute ==
    /\ hal_module = "ZaberZController"
    /\ log.n_ops < MaxOps
    /\ \E z_pos \in Requests :
          goAbsoluteCall(z_pos, Called([log EXCEPT !.n_ops = @ + 1],
                                       "goAbsolute", <<Some(z_pos)>>))
    /\ UNCHANGED <<mutex, fine, coarse, z_stage, ctl, xy, poll>>
    /\ UNCHANGED <<cam_vars, hal_module, qthread, display>>

\* goRelative(z_delta): self.z_position = self.z_position + z_delta;
\* self.goAbsolute(self.z_position)
goRelative ==
    /\ hal_module = "ZaberZController"
    /\ log.n_ops < MaxOps
    /\ fine.z_position # None
    /\ \E z_delta \in Deltas :
          /\ fine' = [fine EXCEPT !.z_position = Some(@[1] + z_delta)]
          /\ goAbsoluteCall(fine.z_position[1] + z_delta,
                            Called([log EXCEPT !.n_ops = @ + 1],
                                   "goRelative", <<Some(z_delta)>>))
    /\ UNCHANGED <<mutex, coarse, z_stage, ctl, xy, poll>>
    /\ UNCHANGED <<cam_vars, hal_module, qthread, display>>

\* goAbsolute of the coarse functionality (ZStageFunctionalityBuffered):
\* a best-effort move of the coarse actuator
coarseGoAbsolute ==
    /\ hal_module = "ZaberZController"
    /\ log.n_ops < MaxOps
    /\ \E z_pos \in CoarseRequests :
          /\ buf' = maybeRun(buf, "coarse",
                             Cmd("zMoveTo", <<Some(z_pos)>>, "zStagePosition"), TRUE)
          /\ log' = Submitted(Called([log EXCEPT !.n_ops = @ + 1],
                                     "coarseGoAbsolute", <<Some(z_pos)>>),
                              "coarse", "maybe",
                              Cmd("zMoveTo", <<Some(z_pos)>>, "zStagePosition"))
    /\ UNCHANGED <<mutex, fine, coarse, z_stage, ctl, xy, poll>>
    /\ UNCHANGED <<cam_vars, hal_module, qthread, display>>

\* startZScan(): self.z_pos_prior_to_scan = self.getCurrentPosition();
\* self.mustRun(task = self.z_stage.startZScan,
\*              ret_signal = self.zScanConfigComplete)
StartCmd == Cmd("startZScan", <<>>, "zScanConfigComplete")

\* the scan starts whose completion has not reached the controller yet:
\* start commands not run, and zScanConfigComplete signals on their way
ReadyDue ==
    Cardinality({i \in 1 .. Len(MustPending("fine")) :
                    MustPending("fine")[i] = StartCmd})
    + (log.n_emitted["zScanConfigComplete"] - log.n_handled)

startZScanCall(o) ==
    /\ fine' = [fine EXCEPT !.z_pos_prior_to_scan = z_stage.fine_position]
    /\ buf' = mustRun(buf, "fine", StartCmd)
    /\ log' = Submitted([o EXCEPT !.scanning = TRUE,
                                  !.recorded = z_stage.fine_position,
                                  !.quiet_since_start = TRUE],
                        "fine", "must", StartCmd)

\* configureZScan(z_pos): self.mustRun(task = self.z_stage.configureZScan,
\*                                     args = [z_pos])
ConfigureCmd(z_pos) == Cmd("configureZScan", <<z_pos>>, "")

\* configureZScan handing its command over best-effort
configureZScanCallMaybe(z_pos, o) ==
    /\ buf' = maybeRun(buf, "fine", ConfigureCmd(z_pos), FALSE)
    /\ log' = Submitted(o, "fine", "maybe", ConfigureCmd(z_pos))

configureZScanCall(z_pos, o) ==
    /\ buf' = mustRun(buf, "fine", ConfigureCmd(z_pos))
    /\ log' = Submitted(o, "fine", "must", ConfigureCmd(z_pos))

\* completeZScan(): self.mustRun(task = self.z_stage.completeZScan), then
\* self.mustRun(task = self.zMoveTo, args = [self.z_pos_prior_to_scan],
\*              ret_signal = self.zStagePosition)
CompleteCmd == Cmd("completeZScan", <<>>, "")

\* the restore move going to the position commanded last
RestoreCmdCommanded == Cmd("zMoveTo", <<fine.z_position>>, "zStagePosition")

RestoreCmd == Cmd("zMoveTo", <<fine.z_pos_prior_to_scan>>, "zStagePosition")

\* the two commands handed over best-effort instead
completeZScanBestEffort(b) ==
    maybeRun(maybeRun(b, "fine", CompleteCmd, FALSE), "fine", RestoreCmd, FALSE)

\* the restore move handed over ahead of the stage's completeZScan
completeZScanSwapped(b) ==
    mustRun(mustRun(b, "fine", RestoreCmd), "fine", CompleteCmd)

completeZScanSubmit(b) ==
    mustRun(mustRun(b, "fine", CompleteCmd), "fine", RestoreCmd)

completeZScanCall(o) ==
    /\ buf' = completeZScanSubmit(buf)
    /\ log' = Submitted(Submitted([o EXCEPT !.scanning = FALSE,
                                            !.early_complete = ReadyDue > 0,
                                            !.restore_target = o.recorded,
                                            !.undisturbed =
                                                buf["fine"].lane["maybe"].pc = "idle"],
                                  "fine", "must", CompleteCmd),
                        "fine", "must", RestoreCmd)

\* completeZScan() called by a holder of the functionality for a scan it
\* has started, whether or not the start command has been run
completeZScan ==
    /\ hal_module = "ZaberZController"
    /\ log.n_ops < MaxOps
    /\ log.scanning
    /\ completeZScanCall(Called([log EXCEPT !.n_ops = @ + 1],
                                 "completeZScan", <<>>))
    /\ UNCHANGED <<mutex, fine, coarse, z_stage, ctl, xy, poll>>
    /\ UNCHANGED <<cam_vars, hal_module, qthread, display>>

-----------------------------------------------------------------------------
(* ZaberZController: the messages it handles.                              *)

\* newParameters(message): self.rel_z_values is set from "z_offsets" and
\* handed to fine_functionality.configureZScan
newParameters ==
    /\ hal_module = "ZaberZController"
    /\ log.n_ops < MaxOps
    /\ \E offsets \in Offsets :
          /\ ctl' = [ctl EXCEPT !.rel_z_values = Some(offsets)]
          /\ configureZScanCall(offsets,
                                Called([log EXCEPT !.n_ops = @ + 1],
                                       "newParameters", <<offsets>>))
    /\ UNCHANGED <<mutex, fine, coarse, z_stage, xy, poll>>
    /\ UNCHANGED <<cam_vars, hal_module, qthread, display>>

\* processMessage, "start film": without z offsets 'ready to film' is sent,
\* otherwise the focus lock is asked for its status
startFilm ==
    /\ hal_module = "ZaberZController"
    /\ ctl.film = "idle"
    /\ log.n_ops < MaxOps
    /\ IF ctl.rel_z_values = None
       THEN /\ ctl' = [ctl EXCEPT !.film = "filming"]
            /\ log' = Called([log EXCEPT !.n_ops = @ + 1, !.n_start = @ + 1,
                                          !.n_ready = @ + 1,
                                          !.film_scan = FALSE],
                             "startFilm", <<>>)
       ELSE /\ ctl' = [ctl EXCEPT !.film = "asked"]
            /\ log' = Called([log EXCEPT !.n_ops = @ + 1, !.n_start = @ + 1,
                                          !.n_asked = @ + 1,
                                          !.film_scan = FALSE],
                             "startFilm", <<>>)
    /\ UNCHANGED <<mutex, buf, fine, coarse, z_stage, xy, poll>>
    /\ UNCHANGED <<cam_vars, hal_module, qthread, display>>

\* handleResponses(message) for "focus lock status": with the lock mode
\* "Triggered Z Scan" locked the scan is started, otherwise 'ready to film'
\* is sent
LockModes == {"Triggered Z Scan", "Always On"}

handleResponses ==
    /\ ctl.film = "asked"
    /\ \E lock_mode_name \in LockModes, is_locked \in BOOLEAN :
          IF lock_mode_name = "Triggered Z Scan" /\ is_locked
          THEN /\ startZScanCall(Called([log EXCEPT !.film_scan = TRUE],
                                        "handleResponses", <<>>))
               /\ ctl' = [ctl EXCEPT !.film = "filming", !.in_z_scan_mode = TRUE]
          ELSE /\ ctl' = [ctl EXCEPT !.film = "filming"]
               /\ log' = Called([log EXCEPT !.n_ready = @ + 1],
                                "handleResponses", <<>>)
               /\ UNCHANGED <<buf, fine>>
    /\ UNCHANGED <<mutex, coarse, z_stage, xy, poll>>
    /\ UNCHANGED <<cam_vars, hal_module, qthread, display>>

\* the "acquisition" data of the response to 'stop film': the coarse
\* position of the stage driver and in_z_scan_mode, read from controller c
\* and stage st; handed counts the commands the fine functionality has
\* been handed by then
Acquisition(c, st, handed) ==
    [coarse_z_position |-> st.coarse_position,
     z_scan_mode |-> c.in_z_scan_mode,
     handed |-> Len(handed)]

\* "stop film" with the scan completed and in_z_scan_mode cleared ahead of
\* the response
stopFilmCompleteFirst ==
    /\ ctl.film = "filming"
    /\ IF z_stage.is_zscan
       THEN completeZScanCall(Called(log, "stopFilm", <<>>))
       ELSE /\ log' = Called(log, "stopFilm", <<>>)
            /\ UNCHANGED buf
    /\ ctl' = [ctl EXCEPT !.film = "idle",
                          !.in_z_scan_mode = FALSE,
                          !.acquisition =
                              Some(Acquisition([ctl EXCEPT !.in_z_scan_mode = FALSE],
                                               z_stage, log'.must_log["fine"]))]
    /\ UNCHANGED <<mutex, fine, coarse, z_stage, xy, poll>>
    /\ UNCHANGED <<cam_vars, hal_module, qthread, display>>

\* "stop film" leaving in_z_scan_mode as it is
stopFilmKeepMode ==
    /\ ctl.film = "filming"
    /\ ctl' = [ctl EXCEPT !.film = "idle",
                          !.acquisition =
                              Some(Acquisition(ctl, z_stage, log.must_log["fine"]))]
    /\ IF z_stage.is_zscan
       THEN completeZScanCall(Called(log, "stopFilm", <<>>))
       ELSE /\ log' = Called(log, "stopFilm", <<>>)
            /\ UNCHANGED buf
    /\ UNCHANGED <<mutex, fine, coarse, z_stage, xy, poll>>
    /\ UNCHANGED <<cam_vars, hal_module, qthread, display>>

\* processMessage, "stop film": the acquisition response is added first;
\* then, if the stage is in z scan mode, the scan is completed, and
\* in_z_scan_mode is cleared
stopFilm ==
    /\ ctl.film = "filming"
    /\ ctl' = [ctl EXCEPT !.film = "idle",
                          !.in_z_scan_mode = FALSE,
                          !.acquisition =
                              Some(Acquisition(ctl, z_stage, log.must_log["fine"]))]
    /\ IF z_stage.is_zscan
       THEN completeZScanCall(Called(log, "stopFilm", <<>>))
       ELSE /\ log' = Called(log, "stopFilm", <<>>)
            /\ UNCHANGED buf
    /\ UNCHANGED <<mutex, fine, coarse, z_stage, xy, poll>>
    /\ UNCHANGED <<cam_vars, hal_module, qthread, display>>

\* handleZScanConfigComplete() sending nothing
handleZScanConfigCompleteSilent(o) == o

\* handleZScanConfigComplete(): 'ready to film' is sent
handleZScanConfigComplete(o) == [o EXCEPT !.n_ready = @ + 1]

-----------------------------------------------------------------------------
(* The buffered functionalities at work: a command is run with the device  *)
(* mutex of its functionality held.                                        *)

\* the device mutex is taken for the command of lane l of functionality f
Lock ==
    \E f \in Functionalities, l \in Modes :
        /\ buf[f].lane[l].pc = "lock"
        /\ mutex[device_mutex(f)] = Free
        /\ mutex' = [mutex EXCEPT ![device_mutex(f)] = <<f, l>>]
        /\ buf' = [buf EXCEPT ![f].lane[l].pc = "run"]
        /\ UNCHANGED <<fine, coarse, z_stage, ctl, xy, poll, log>>
        /\ UNCHANGED <<cam_vars, hal_module, qthread, display>>

\* what the task does to the stage driver of ZaberZController: zMoveFine,
\* zMoveCoarse, startZScan, configureZScan, completeZScan
StageAfter(st, f, cmd) ==
    CASE cmd.task = "zMoveTo" /\ f = "fine" -> [st EXCEPT !.fine_position = cmd.args[1]]
      [] cmd.task = "zMoveTo" /\ f = "coarse" -> [st EXCEPT !.coarse_position = cmd.args[1]]
      [] cmd.task = "startZScan" -> [st EXCEPT !.is_zscan = TRUE]
      [] cmd.task = "configureZScan" -> [st EXCEPT !.offsets = Some(cmd.args[1])]
      [] cmd.task = "completeZScan" -> [st EXCEPT !.is_zscan = FALSE]
      [] OTHER -> st

\* zMoveTo(z_pos): self.z_stage.zMoveFine(z_pos) (zMoveCoarse for the
\* coarse functionality); self.z_position = z_pos; return z_pos
zMoveTo(fn, cmd) == [fn EXCEPT !.z_position = cmd.args[1]]

\* what the task returns: zMoveTo returns z_pos, the tasks of the stage
\* driver return nothing that is looked at
Returned(cmd) == IF cmd.task = "zMoveTo" THEN cmd.args[1] ELSE None

\* the signals of the fine and the coarse functionality
Signals == {"zStagePosition", "zScanConfigComplete"}

\* the result emitted whether or not a ret_signal was given
EmitAlways(o, cmd, retv) ==
    [o EXCEPT !.n_emitted["zStagePosition"] = @ + 1,
              !.last_emit = [signal |-> "zStagePosition", value |-> retv]]

\* ret_signal.emit(retv) if a ret_signal was given
Emit(o, cmd, retv) ==
    IF cmd.ret_signal \in Signals
    THEN [o EXCEPT !.n_emitted[cmd.ret_signal] = @ + 1,
                   !.last_emit = [signal |-> cmd.ret_signal, value |-> retv]]
    ELSE o

\* the observer notes the command run; its result goes to its ret_signal
Executed(o, f, l, cmd) ==
    Emit([o EXCEPT !.exec_must[f] = IF l = "must" THEN Append(@, cmd) ELSE @],
         cmd, Returned(cmd))

\* the task is run, the mutex released, the result emitted on ret_signal and
\* the lane moves on
RunTask ==
    \E f \in Functionalities, l \in Modes :
        /\ buf[f].lane[l].pc = "run"
        /\ z_stage' = StageAfter(z_stage, f, buf[f].lane[l].cmd)
        /\ fine' = IF f = "fine" /\ buf[f].lane[l].cmd.task = "zMoveTo"
                   THEN zMoveTo(fine, buf[f].lane[l].cmd)
                   ELSE fine
        /\ coarse' = IF f = "coarse" /\ buf[f].lane[l].cmd.task = "zMoveTo"
                     THEN zMoveTo(coarse, buf[f].lane[l].cmd)
                     ELSE coarse
        /\ mutex' = [mutex EXCEPT ![device_mutex(f)] = Free]
        /\ buf' = Finished(buf, f, l)
        /\ log' = Executed(log, f, l, buf[f].lane[l].cmd)
        /\ UNCHANGED <<ctl, xy, poll>>
        /\ UNCHANGED <<cam_vars, hal_module, qthread, display>>

\* self.fine_functionality.zScanConfigComplete.connect(
\*     self.handleZScanConfigComplete): the slot is called in the thread of
\* the controller, once for every emission, some time after it
zScanConfigComplete ==
    /\ log.n_handled < log.n_emitted["zScanConfigComplete"]
    /\ log' = handleZScanConfigComplete([log EXCEPT !.n_handled = @ + 1])
    /\ UNCHANGED <<mutex, buf, fine, coarse, z_stage, ctl, xy, poll>>
    /\ UNCHANGED <<cam_vars, hal_module, qthread, display>>

-----------------------------------------------------------------------------
(* ZaberXYStageFunctionality and ZaberPollingThread.                       *)

PositionCmd == Cmd("position", <<>>, "")

\* handleUpdateTimer(): if not self.querying: self.querying = True;
\* self.mustRun(task = self.stage.position).  A tick with querying set
\* changes nothing.
handleUpdateTimer ==
    /\ hal_module = "ZaberZStage"
    /\ log.n_ticks < MaxTicks
    /\ xy.wait = "running"
    /\ ~xy.querying
    /\ xy' = [xy EXCEPT !.querying = TRUE]
    /\ buf' = mustRun(buf, "xy", PositionCmd)
    /\ log' = Submitted(Called([log EXCEPT !.n_ticks = @ + 1],
                               "handleUpdateTimer", <<>>),
                        "xy", "must", PositionCmd)
    /\ UNCHANGED <<mutex, fine, coarse, z_stage, ctl, poll>>
    /\ UNCHANGED <<cam_vars, hal_module, qthread, display>>

\* handleStagePosition(pos_dict): self.pos_dict = pos_dict;
\* self.querying = False
handleStagePosition(x, pos_dict) ==
    [x EXCEPT !.pos_dict = pos_dict, !.querying = FALSE]

\* the polling thread shares the device mutex of its functionality
poll_mutex == device_mutex("xy")

\* wait() of a QThread returning at once
QThreadWaitNone(pc) == TRUE

\* wait() of a QThread returns when the thread has left run(): run()
\* returned, or an exception ended it
QThreadWait(pc) == pc \in {"exited", Raised}

\* startPolling() has started the thread; run(): self.running = True
PollRun ==
    /\ hal_module = "ZaberZStage"
    /\ poll.pc = "run"
    /\ poll' = [poll EXCEPT !.pc = "while", !.running = TRUE]
    /\ UNCHANGED <<mutex, buf, fine, coarse, z_stage, ctl, xy, log>>
    /\ UNCHANGED <<cam_vars, hal_module, qthread, display>>

\* while(self.running): another cycle, or run() returns
PollWhile ==
    /\ poll.pc = "while"
    /\ poll' = [poll EXCEPT !.pc = IF poll.running THEN "status_lock" ELSE "exited"]
    /\ UNCHANGED <<mutex, buf, fine, coarse, z_stage, ctl, xy, log>>
    /\ UNCHANGED <<cam_vars, hal_module, qthread, display>>

\* self.device_mutex.lock() ahead of the status query
PollStatusLock ==
    /\ poll.pc = "status_lock"
    /\ mutex[poll_mutex] = Free
    /\ mutex' = [mutex EXCEPT ![poll_mutex] = <<"poll">>]
    /\ poll' = [poll EXCEPT !.pc = "status_query"]
    /\ UNCHANGED <<buf, fine, coarse, z_stage, ctl, xy, log>>
    /\ UNCHANGED <<cam_vars, hal_module, qthread, display>>

\* the status query with the mutex kept until after the notification
PollStatusQueryKeep ==
    /\ poll.pc = "status_query"
    /\ \E response \in StatusResponses :
          poll' = [poll EXCEPT !.pc = "status_emit", !.response = response]
    /\ UNCHANGED <<mutex, buf, fine, coarse, z_stage, ctl, xy, log>>
    /\ UNCHANGED <<cam_vars, hal_module, qthread, display>>

\* response = self.stage.isStageMoving(); self.device_mutex.unlock().  If
\* the driver raises, the exception ends run() before unlock() is reached.
PollStatusQuery ==
    /\ poll.pc = "status_query"
    /\ \/ /\ \E response \in StatusResponses :
                poll' = [poll EXCEPT !.pc = "status_emit", !.response = response]
          /\ mutex' = [mutex EXCEPT ![poll_mutex] = Free]
       \/ /\ poll' = [poll EXCEPT !.pc = Raised]
          /\ UNCHANGED mutex
    /\ UNCHANGED <<buf, fine, coarse, z_stage, ctl, xy, log>>
    /\ UNCHANGED <<cam_vars, hal_module, qthread, display>>

\* a status that is neither "MOVING" nor "IDLE" ending the loop with the
\* position forgotten
PollStatusEmitStop ==
    /\ poll.pc = "status_emit"
    /\ xy' = [xy EXCEPT !.is_moving =
                 CASE poll.response = "MOVING" -> Some(TRUE)
                   [] poll.response = "IDLE" -> Some(FALSE)
                   [] OTHER -> @,
                        !.pos_dict =
                 IF poll.response \in {"MOVING", "IDLE"} THEN @ ELSE None]
    /\ poll' = [poll EXCEPT !.pc = IF poll.response \in {"MOVING", "IDLE"}
                                   THEN "position_lock" ELSE "exited"]
    /\ UNCHANGED <<mutex, buf, fine, coarse, z_stage, ctl, log>>
    /\ UNCHANGED <<cam_vars, hal_module, qthread, display>>

\* is_moving_signal.emit(True) for "MOVING", emit(False) for "IDLE",
\* nothing but a print otherwise
PollStatusEmit ==
    /\ poll.pc = "status_emit"
    /\ xy' = [xy EXCEPT !.is_moving =
                 CASE poll.response = "MOVING" -> Some(TRUE)
                   [] poll.response = "IDLE" -> Some(FALSE)
                   [] OTHER -> @]
    /\ poll' = [poll EXCEPT !.pc = "position_lock"]
    /\ UNCHANGED <<mutex, buf, fine, coarse, z_stage, ctl, log>>
    /\ UNCHANGED <<cam_vars, hal_module, qthread, display>>

\* self.device_mutex.lock() ahead of the position query
PollPositionLock ==
    /\ poll.pc = "position_lock"
    /\ mutex[poll_mutex] = Free
    /\ mutex' = [mutex EXCEPT ![poll_mutex] = <<"poll">>]
    /\ poll' = [poll EXCEPT !.pc = "position_query"]
    /\ UNCHANGED <<buf, fine, coarse, z_stage, ctl, xy, log>>
    /\ UNCHANGED <<cam_vars, hal_module, qthread, display>>

\* [sx, sy] = self.stage.getPosition(); self.device_mutex.unlock().  If the
\* driver raises, the exception ends run() before unlock() is reached.
PollPositionQuery ==
    /\ poll.pc = "position_query"
    /\ \/ /\ \E sx \in PositionResponses :
                poll' = [poll EXCEPT !.pc = "position_emit", !.sx = sx]
          /\ mutex' = [mutex EXCEPT ![poll_mutex] = Free]
       \/ /\ poll' = [poll EXCEPT !.pc = Raised]
          /\ UNCHANGED mutex
    /\ UNCHANGED <<buf, fine, coarse, z_stage, ctl, xy, log>>
    /\ UNCHANGED <<cam_vars, hal_module, qthread, display>>

\* if sx is not None: self.stage_position_signal.emit({"x": sx, "y": sy}),
\* which the functionality receives in handleStagePosition
PollPositionEmit ==
    /\ poll.pc = "position_emit"
    /\ xy' = IF poll.sx # None
             THEN handleStagePosition(xy, Some([x |-> poll.sx[1], y |-> poll.sx[1]]))
             ELSE xy
    /\ poll' = [poll EXCEPT !.pc = "sleep"]
    /\ UNCHANGED <<mutex, buf, fine, coarse, z_stage, ctl, log>>
    /\ UNCHANGED <<cam_vars, hal_module, qthread, display>>

\* self.msleep(self.sleep_time), and round the loop again
PollSleep ==
    /\ poll.pc = "sleep"
    /\ poll' = [poll EXCEPT !.pc = "while"]
    /\ UNCHANGED <<mutex, buf, fine, coarse, z_stage, ctl, xy, log>>
    /\ UNCHANGED <<cam_vars, hal_module, qthread, display>>



\* wait() of the functionality: self.updateTimer.stop();
\* self.polling_thread.stopPolling(), which clears the running flag of the
\* thread and then blocks
wait ==
    /\ hal_module = "ZaberZStage"
    /\ xy.wait = "running"
    /\ xy' = [xy EXCEPT !.wait = "stopPolling"]
    /\ poll' = [poll EXCEPT !.running = FALSE]
    /\ UNCHANGED <<mutex, buf, fine, coarse, z_stage, ctl, log>>
    /\ UNCHANGED <<cam_vars, hal_module, qthread, display>>

\* stopPolling() returns to wait(), which goes on to super().wait()
waitStopped ==
    /\ xy.wait = "stopPolling"
    /\ QThreadWait(poll.pc)
    /\ xy' = [xy EXCEPT !.wait = "stopped"]
    /\ UNCHANGED <<mutex, buf, fine, coarse, z_stage, ctl, poll, log>>
    /\ UNCHANGED <<cam_vars, hal_module, qthread, display>>

-----------------------------------------------------------------------------
(* The stage side: initial state and next-state relation.                  *)

NoLog ==
    [n_ops |-> 0, n_ticks |-> 0,
     n_start |-> 0, n_ready |-> 0, n_asked |-> 0,
     scanning |-> FALSE, early_complete |-> FALSE, film_scan |-> FALSE,
     recorded |-> None, restore_target |-> None,
     quiet_since_start |-> FALSE, undisturbed |-> FALSE,
     n_emitted |-> [s \in Signals |-> 0], n_handled |-> 0,
     last_emit |-> [signal |-> "", value |-> None],
     commanded |-> Some(0),
     last_call |-> [op |-> "", args |-> <<>>],
     last_submit |-> [f |-> "", mode |-> "", cmd |-> NoCmd],
     must_log |-> [f \in Functionalities |-> <<>>],
     exec_must |-> [f \in Functionalities |-> <<>>]]

\* ZaberFineFocusBufferedFunctionality.__init__ with the limits lo and hi
FineInit(lo, hi) ==
    [z_position |-> Some(0), z_pos_prior_to_scan |-> None,
     minimum |-> lo, maximum |-> hi]

\* the modules as constructed: every mutex free, nothing submitted, the
\* stage at rest at 0, the polling thread started and about to enter run()
StageRest ==
    /\ mutex = [m \in Mutexes |-> Free]
    /\ buf = [f \in Functionalities |-> IdleBuffer]
    /\ coarse = [z_position |-> Some(0)]
    /\ z_stage = [fine_position |-> Some(0), coarse_position |-> Some(0),
                  is_zscan |-> FALSE, offsets |-> None]
    /\ ctl = [rel_z_values |-> None, in_z_scan_mode |-> FALSE,
              film |-> "idle", acquisition |-> None]
    /\ xy = [querying |-> FALSE, pos_dict |-> None, is_moving |-> None,
             wait |-> "running"]
    /\ poll = [pc |-> "run", running |-> FALSE, response |-> "", sx |-> None]
    /\ log = NoLog

StageInit ==
    /\ StageRest
    /\ fine = FineInit(minimum, maximum)

-----------------------------------------------------------------------------
(* The status displays of the focus lock: QQPDSumDisplay and               *)
(* QStageDisplay.  The rectangles drawn are left out; the colours are kept.*)

Widgets == {"QQPDSumDisplay", "QStageDisplay"}

\* the thresholds a functionality is configured with
Thresholds == 0 .. MaxValue

\* the values a display is updated with
Values == -1 .. MaxValue + 1

QColor(r, g, b, a) == <<r, g, b, a>>

NoDisplay == [none |-> TRUE]

DisplayAbsent == display = NoDisplay

\* QStatusDisplay.__init__ and setFunctionality of the widget: the scale
\* and the warning thresholds are parameters of the functionality; the sum
\* display has a warning threshold only if the parameter exists
Displays ==
    {d \in [widget : Widgets, value : {0},
            scale_min : Thresholds, scale_max : Thresholds,
            warning_low : {None} \cup {Some(t) : t \in Thresholds},
            warning_high : {None} \cup {Some(t) : t \in Thresholds},
            adjust_mode : {FALSE}, painted : {None}] :
        /\ d.scale_min < d.scale_max
        /\ d.widget = "QStageDisplay" =>
              d.warning_low # None /\ d.warning_high # None}

\* QQPDSumDisplay.paintEvent with the foreground red from warning_low on
\* downwards
SumForegroundInclusive(d) ==
    IF \/ d.warning_low # None /\ d.value <= d.warning_low[1]
       \/ d.warning_high # None /\ d.value >= d.warning_high[1]
    THEN QColor(255, 0, 0, 200)
    ELSE QColor(0, 255, 0, 200)

\* QQPDSumDisplay.paintEvent, "foreground": green, red if value <
\* warning_low or value >= warning_high, for the thresholds that are set
SumForeground(d) ==
    IF \/ d.warning_low # None /\ d.value < d.warning_low[1]
       \/ d.warning_high # None /\ d.value >= d.warning_high[1]
    THEN QColor(255, 0, 0, 200)
    ELSE QColor(0, 255, 0, 200)

\* QStageDisplay.paintBackground: grey in adjust mode, white otherwise,
\* red if value < warning_low or value > warning_high
StageBackground(d) ==
    IF d.value < d.warning_low[1] \/ d.value > d.warning_high[1]
    THEN QColor(255, 0, 0, 255)
    ELSE IF d.adjust_mode THEN QColor(180, 180, 180, 255)
         ELSE QColor(255, 255, 255, 255)

\* what paintEvent paints: QQPDSumDisplay a white background
\* (QStatusDisplay.paintBackground) and its foreground bar; QStageDisplay
\* its background and the bar of QOffsetDisplay.paintEvent in bar_color
Painted(d) ==
    IF d.widget = "QQPDSumDisplay"
    THEN [background |-> QColor(255, 255, 255, 255),
          foreground |-> SumForeground(d)]
    ELSE [background |-> StageBackground(d),
          foreground |-> QColor(0, 0, 0, 150)]

\* updateValue(value): self.value = value; self.update()
updateValue ==
    /\ display # NoDisplay
    /\ \E value \in Values : display' = [display EXCEPT !.value = value]
    /\ UNCHANGED <<cam_vars, stage_vars, hal_module, qthread>>

\* QStageDisplay.mousePressEvent: self.adjust_mode = not self.adjust_mode
mousePressEvent ==
    /\ display # NoDisplay
    /\ display.widget = "QStageDisplay"
    /\ display' = [display EXCEPT !.adjust_mode = ~@]
    /\ UNCHANGED <<cam_vars, stage_vars, hal_module, qthread>>

\* paintEvent(event)
paintEvent ==
    /\ display # NoDisplay
    /\ display' = [display EXCEPT !.painted = Some(Painted(display))]
    /\ UNCHANGED <<cam_vars, stage_vars, hal_module, qthread>>

-----------------------------------------------------------------------------
(* LockCamera as a thread: run(), the AOI staged behind params_mutex,      *)
(* zero_dist, stopCamera.                                                  *)

\* self.max_offsetx, self.max_offsety: the maxima the camera reports
max_offsetx == 2

max_offsety == 1

\* the (dx, dy) adjustAOI is called with
AoiSteps == {<<1, 0>>, <<-1, 1>>}

\* the increments adjustZeroDist is called with; zero_dist is counted in the
\* unit of one increment (0.001 for AFLockCamera)
Incs == {1}

\* the contexts other than the acquisition worker that call into the camera
Callers == {"gui", "other"}

IdleCaller == [pc |-> "idle", op |-> "", dx |-> 0, dy |-> 0, inc |-> 0,
               tmp_x |-> 0, tmp_y |-> 0]

\* the offset taken as computed
ClampOffsetNone(tmp, max_offset) == tmp

\* tmp = max(0, tmp); tmp = min(max_offset, tmp)
ClampOffset(tmp, max_offset) ==
    IF tmp < 0 THEN (IF 0 > max_offset THEN max_offset ELSE 0)
    ELSE IF tmp > max_offset THEN max_offset ELSE tmp

\* LockCamera after __init__ and startCamera(): offsets as read from the
\* camera, old = cur, the mutex free, running False, the thread started and
\* about to enter run()
ThreadInit ==
    qthread = [pc |-> "start", running |-> FALSE, params_mutex |-> "",
               cur_offsetx |-> 0, cur_offsety |-> 0,
               old_offsetx |-> 0, old_offsety |-> 0,
               zero_dist |-> 0,
               camera |-> [OffsetX |-> 0, OffsetY |-> 0,
                           acquiring |-> FALSE, shutdown |-> FALSE],
               caller |-> [c \in Callers |-> IdleCaller],
               main |-> "running",
               log |-> [n_calls |-> 0, n_bursts |-> 0, analysed |-> 0,
                        seq_x |-> 0, seq_y |-> 0,
                        emitted |-> None]]

\* run(): self.camera.startAcquisition(); self.running = True
RunStart ==
    /\ hal_module = "LockCamera"
    /\ qthread.pc = "start"
    /\ qthread' = [qthread EXCEPT !.pc = "while", !.running = TRUE,
                                  !.camera.acquiring = TRUE]
    /\ UNCHANGED <<cam_vars, stage_vars, hal_module, display>>

\* while(self.running): another burst, or the loop is left
RunWhile ==
    /\ qthread.pc = "while"
    /\ qthread' = [qthread EXCEPT !.pc = IF qthread.running THEN "getFrames"
                                         ELSE "final"]
    /\ UNCHANGED <<cam_vars, stage_vars, hal_module, display>>

\* [frames, frame_size] = self.camera.getFrames().  The bursts are counted
\* up to MaxBursts; the loop goes on beyond.
RunGetFrames ==
    /\ qthread.pc = "getFrames"
    /\ qthread' = [qthread EXCEPT !.pc = "analyze",
                                  !.log.n_bursts = IF @ < MaxBursts THEN @ + 1
                                                   ELSE @]
    /\ UNCHANGED <<cam_vars, stage_vars, hal_module, display>>

\* self.analyze(frames, frame_size): when the burst completes a batch with
\* enough good frames, the offset emitted is the mean minus self.zero_dist,
\* read here without params_mutex; the mean is taken as 0
RunAnalyze ==
    /\ qthread.pc = "analyze"
    /\ \E emits \in BOOLEAN :
          qthread' = [qthread EXCEPT !.pc = "lock",
                                     !.log.analysed = qthread.log.n_bursts,
                                     !.log.emitted =
                                         IF emits THEN Some(0 - qthread.zero_dist)
                                         ELSE None]
    /\ UNCHANGED <<cam_vars, stage_vars, hal_module, display>>

\* self.params_mutex.lock()
RunLock ==
    /\ qthread.pc = "lock"
    /\ qthread.params_mutex = ""
    /\ qthread' = [qthread EXCEPT !.pc = "check", !.params_mutex = "run"]
    /\ UNCHANGED <<cam_vars, stage_vars, hal_module, display>>

\* the check of the offsets never finding a change
RunCheckNever ==
    /\ qthread.pc = "check"
    /\ qthread' = [qthread EXCEPT !.pc = "unlock"]
    /\ UNCHANGED <<cam_vars, stage_vars, hal_module, display>>

\* if (self.old_offsetx != self.cur_offsetx) or (self.old_offsety !=
\* self.cur_offsety): self.camera.stopAcquisition()
RunCheck ==
    /\ qthread.pc = "check"
    /\ IF \/ qthread.old_offsetx # qthread.cur_offsetx
          \/ qthread.old_offsety # qthread.cur_offsety
       THEN qthread' = [qthread EXCEPT !.pc = "setProperty",
                                       !.camera.acquiring = FALSE]
       ELSE qthread' = [qthread EXCEPT !.pc = "unlock"]
    /\ UNCHANGED <<cam_vars, stage_vars, hal_module, display>>

\* self.camera.setProperty("OffsetX", self.cur_offsetx);
\* self.camera.setProperty("OffsetY", self.cur_offsety)
RunSetProperty ==
    /\ qthread.pc = "setProperty"
    /\ qthread' = [qthread EXCEPT !.pc = "restart",
                                  !.camera.OffsetX = qthread.cur_offsetx,
                                  !.camera.OffsetY = qthread.cur_offsety]
    /\ UNCHANGED <<cam_vars, stage_vars, hal_module, display>>

\* self.camera.startAcquisition(); self.old_offsetx = self.cur_offsetx;
\* self.old_offsety = self.cur_offsety
RunRestart ==
    /\ qthread.pc = "restart"
    /\ qthread' = [qthread EXCEPT !.pc = "unlock",
                                  !.camera.acquiring = TRUE,
                                  !.old_offsetx = qthread.cur_offsetx,
                                  !.old_offsety = qthread.cur_offsety]
    /\ UNCHANGED <<cam_vars, stage_vars, hal_module, display>>

\* self.params_mutex.unlock(); self.msleep(5)
RunUnlock ==
    /\ qthread.pc = "unlock"
    /\ qthread' = [qthread EXCEPT !.pc = "while", !.params_mutex = ""]
    /\ UNCHANGED <<cam_vars, stage_vars, hal_module, display>>

\* after the loop: self.camera.stopAcquisition(), and run() returns
RunFinalStop ==
    /\ qthread.pc = "final"
    /\ qthread' = [qthread EXCEPT !.pc = "exited", !.camera.acquiring = FALSE]
    /\ UNCHANGED <<cam_vars, stage_vars, hal_module, display>>

\* adjustAOI(dx, dy) is called in the context c
adjustAOI ==
    /\ hal_module = "LockCamera"
    /\ qthread.main = "running"
    /\ qthread.log.n_calls < MaxAdjust
    /\ \E c \in Callers, d \in AoiSteps :
          /\ qthread.caller[c].pc = "idle"
          /\ qthread' = [qthread EXCEPT
                            !.caller[c] = [IdleCaller EXCEPT !.pc = "read_x",
                                                             !.op = "adjustAOI",
                                                             !.dx = d[1],
                                                             !.dy = d[2]],
                            !.log.n_calls = @ + 1]
    /\ UNCHANGED <<cam_vars, stage_vars, hal_module, display>>

\* tmp_x = self.cur_offsetx + dx; tmp_y = self.cur_offsety + dy, one read
\* after the other and without params_mutex; then each is clamped to
\* [0, max_offset]
adjustAOIRead ==
    /\ \E c \in Callers :
          \/ /\ qthread.caller[c].pc = "read_x"
             /\ qthread' = [qthread EXCEPT
                               !.caller[c].pc = "read_y",
                               !.caller[c].tmp_x =
                                   qthread.cur_offsetx + qthread.caller[c].dx]
          \/ /\ qthread.caller[c].pc = "read_y"
             /\ qthread' = [qthread EXCEPT
                               !.caller[c].pc = "lock",
                               !.caller[c].tmp_x =
                                   ClampOffset(@, max_offsetx),
                               !.caller[c].tmp_y =
                                   ClampOffset(qthread.cur_offsety + qthread.caller[c].dy,
                                               max_offsety)]
    /\ UNCHANGED <<cam_vars, stage_vars, hal_module, display>>

\* self.params_mutex.lock() in adjustAOI and in adjustZeroDist.  The
\* observer applies the call to the outcome of the calls that held the
\* mutex before it.
ParamsLock ==
    /\ qthread.params_mutex = ""
    /\ \E c \in Callers :
          /\ qthread.caller[c].pc = "lock"
          /\ qthread' = [qthread EXCEPT
                !.params_mutex = c,
                !.caller[c].pc = IF qthread.caller[c].op = "adjustAOI"
                                 THEN "write_x" ELSE "add",
                !.log.seq_x = ClampOffset(@ + qthread.caller[c].dx, max_offsetx),
                !.log.seq_y = ClampOffset(@ + qthread.caller[c].dy, max_offsety)]
    /\ UNCHANGED <<cam_vars, stage_vars, hal_module, display>>

\* adjustAOI writing the offsets to the camera as well
adjustAOIWriteThrough ==
    /\ \E c \in Callers :
          /\ qthread.caller[c].pc \in {"write_x", "write_y"}
          /\ qthread' = [qthread EXCEPT
                            !.caller[c].pc = "unlock",
                            !.cur_offsetx = qthread.caller[c].tmp_x,
                            !.cur_offsety = qthread.caller[c].tmp_y,
                            !.camera.OffsetX = qthread.caller[c].tmp_x,
                            !.camera.OffsetY = qthread.caller[c].tmp_y]
    /\ UNCHANGED <<cam_vars, stage_vars, hal_module, display>>

\* self.cur_offsetx = tmp_x; self.cur_offsety = tmp_y, with the mutex held
adjustAOIWrite ==
    /\ \E c \in Callers :
          \/ /\ qthread.caller[c].pc = "write_x"
             /\ qthread' = [qthread EXCEPT
                               !.caller[c].pc = "write_y",
                               !.cur_offsetx = qthread.caller[c].tmp_x]
          \/ /\ qthread.caller[c].pc = "write_y"
             /\ qthread' = [qthread EXCEPT
                               !.caller[c].pc = "unlock",
                               !.cur_offsety = qthread.caller[c].tmp_y]
    /\ UNCHANGED <<cam_vars, stage_vars, hal_module, display>>

\* adjustZeroDist(inc) is called in the context c
adjustZeroDist ==
    /\ hal_module = "LockCamera"
    /\ qthread.main = "running"
    /\ qthread.log.n_calls < MaxAdjust
    /\ \E c \in Callers, inc \in Incs :
          /\ qthread.caller[c].pc = "idle"
          /\ qthread' = [qthread EXCEPT
                            !.caller[c] = [IdleCaller EXCEPT !.pc = "lock",
                                                             !.op = "adjustZeroDist",
                                                             !.inc = inc],
                            !.log.n_calls = @ + 1]
    /\ UNCHANGED <<cam_vars, stage_vars, hal_module, display>>

\* self.zero_dist += 0.001*inc, with the mutex held
adjustZeroDistAdd ==
    /\ \E c \in Callers :
          /\ qthread.caller[c].pc = "add"
          /\ qthread' = [qthread EXCEPT
                            !.caller[c].pc = "unlock",
                            !.zero_dist = @ + qthread.caller[c].inc]
    /\ UNCHANGED <<cam_vars, stage_vars, hal_module, display>>

\* self.params_mutex.unlock() in adjustAOI and in adjustZeroDist, and the
\* call returns
ParamsUnlock ==
    /\ \E c \in Callers :
          /\ qthread.caller[c].pc = "unlock"
          /\ qthread' = [qthread EXCEPT !.params_mutex = "",
                                        !.caller[c] = IdleCaller]
    /\ UNCHANGED <<cam_vars, stage_vars, hal_module, display>>

\* stopCamera(): self.running = False; self.wait() blocks
stopCamera ==
    /\ hal_module = "LockCamera"
    /\ qthread.main = "running"
    /\ qthread' = [qthread EXCEPT !.main = "wait", !.running = FALSE]
    /\ UNCHANGED <<cam_vars, stage_vars, hal_module, display>>

\* self.wait() has returned: self.camera.shutdown()
stopCameraShutdown ==
    /\ qthread.main = "wait"
    /\ QThreadWait(qthread.pc)
    /\ qthread' = [qthread EXCEPT !.main = "done", !.camera.shutdown = TRUE]
    /\ UNCHANGED <<cam_vars, stage_vars, hal_module, display>>


\* no camera is part of a behaviour of the stage side
NoParameters == [none |-> TRUE]

CamAbsent ==
    /\ parameters = NoParameters
    /\ cam_state = "absent"
    /\ cam = NoCam
    /\ cameraUpdate = NoUpdate
    /\ stream = <<>>
    /\ obs = NoObs

\* a behaviour follows one of the two Zaber modules or the lock camera's
\* thread; they share no object
Init ==
    /\ hal_module \in {"ZaberZController", "ZaberZStage", "LockCamera"}
    /\ StageInit
    /\ CamAbsent
    /\ ThreadInit
    /\ DisplayAbsent

Next ==
    \/ goAbsolute
    \/ goRelative
    \/ coarseGoAbsolute
    \/ newParameters
    \/ startFilm
    \/ handleResponses
    \/ stopFilm
    \/ completeZScan
    \/ Lock
    \/ RunTask
    \/ zScanConfigComplete
    \/ handleUpdateTimer
    \/ wait
    \/ waitStopped
    \/ PollRun
    \/ PollWhile
    \/ PollStatusLock
    \/ PollStatusQuery
    \/ PollStatusEmit
    \/ PollPositionLock
    \/ PollPositionQuery
    \/ PollPositionEmit
    \/ PollSleep
    \/ RunStart
    \/ RunWhile
    \/ RunGetFrames
    \/ RunAnalyze
    \/ RunLock
    \/ RunCheck
    \/ RunSetProperty
    \/ RunRestart
    \/ RunUnlock
    \/ RunFinalStop
    \/ adjustAOI
    \/ adjustAOIRead
    \/ ParamsLock
    \/ adjustAOIWrite
    \/ adjustZeroDist
    \/ adjustZeroDistAdd
    \/ ParamsUnlock
    \/ stopCamera
    \/ stopCameraShutdown

Spec == Init /\ [][Next]_vars

\* the steps of the acquisition worker, run() of LockCamera
CameraWorker ==
    \/ RunStart
    \/ RunWhile
    \/ RunGetFrames
    \/ RunAnalyze
    \/ RunLock
    \/ RunCheck
    \/ RunSetProperty
    \/ RunRestart
    \/ RunUnlock
    \/ RunFinalStop

\* the steps of a call of adjustAOI or adjustZeroDist that is under way
CameraCaller ==
    \/ adjustAOIRead
    \/ ParamsLock
    \/ adjustAOIWrite
    \/ adjustZeroDistAdd
    \/ ParamsUnlock

\* the steps of the polling thread, run() of ZaberPollingThread
PollingWorker ==
    \/ PollRun
    \/ PollWhile
    \/ PollStatusLock
    \/ PollStatusQuery
    \/ PollStatusEmit
    \/ PollPositionLock
    \/ PollPositionQuery
    \/ PollPositionEmit
    \/ PollSleep

\* Threads are scheduled: a started thread that can take its next step
\* takes it, a call under way goes on, a command taken up by the worker of
\* a functionality is run and its result delivered, and a wait() returns
\* once its thread has left run().  Calls from outside (adjustAOI,
\* stopCamera, wait, the timer, messages) need not come.
Fairness ==
    /\ WF_vars(CameraWorker)
    /\ WF_vars(CameraCaller)
    /\ WF_vars(PollingWorker)
    /\ WF_vars(Lock \/ RunTask)
    /\ WF_vars(stopCameraShutdown)
    /\ WF_vars(waitStopped)

\* the two modules that run a thread of their own
LiveInit ==
    /\ Init
    /\ hal_module \in {"ZaberZStage", "LockCamera"}

LiveNext ==
    \/ handleUpdateTimer
    \/ Lock
    \/ RunTask
    \/ wait
    \/ waitStopped
    \/ PollingWorker
    \/ CameraWorker
    \/ adjustAOI
    \/ adjustZeroDist
    \/ CameraCaller
    \/ stopCamera
    \/ stopCameraShutdown

LiveSpec == LiveInit /\ [][LiveNext]_vars /\ Fairness

-----------------------------------------------------------------------------
(* A fine functionality on its own, with any limits minimum <= maximum.    *)

\* the limits tried, and the positions asked of goAbsolute: from below the
\* smallest limit to above the largest
Limits == 0 .. MaxLimit

ClampInputs == (0 - 2) .. (MaxLimit + 2)

ClampInit ==
    /\ hal_module = "ZaberFineFocusBufferedFunctionality"
    /\ StageRest
    /\ \E lo \in Limits, hi \in Limits :
          /\ lo <= hi
          /\ fine = FineInit(lo, hi)
    /\ CamAbsent
    /\ ThreadInit
    /\ DisplayAbsent

\* goAbsolute(z_pos) with any of the positions
goAbsoluteAny ==
    /\ hal_module = "ZaberFineFocusBufferedFunctionality"
    /\ log.n_ops < MaxOps
    /\ \E z_pos \in ClampInputs :
          goAbsoluteCall(z_pos, Called([log EXCEPT !.n_ops = @ + 1],
                                       "goAbsolute", <<Some(z_pos)>>))
    /\ UNCHANGED <<mutex, fine, coarse, z_stage, ctl, xy, poll>>
    /\ UNCHANGED <<cam_vars, hal_module, qthread, display>>

ClampNext ==
    \/ goAbsoluteAny
    \/ Lock
    \/ RunTask

ClampSpec == ClampInit /\ [][ClampNext]_vars

-----------------------------------------------------------------------------
(* The camera side: initial states and next-state relations.               *)

CamInit ==
    /\ parameters \in {p \in Configurations : Configured(p)}
    /\ cam_state = "new"
    /\ cam = NoCam
    /\ cameraUpdate = NoUpdate
    /\ stream = <<>>
    /\ obs = NoObs
    /\ hal_module = "LockCamera"
    /\ StageInit
    /\ ThreadInit
    /\ DisplayAbsent

CamNext == Construct \/ startCamera \/ Analyze

CamSpec == CamInit /\ [][CamNext]_vars

\* the streams tried: every cycle of two different frames
Streams(F) == {c \in [1 .. 2 -> F] : c[1] # c[2]}

BacklogInit ==
    /\ parameters \in {p \in Configurations :
                          Configured(p) /\ p.reps >= p.min_good /\ p.sum_threshold = 0}
    /\ cam_state = "new"
    /\ cam = NoCam
    /\ cameraUpdate = NoUpdate
    /\ stream \in Streams(FramesOf(parameters.variant))
    /\ obs = NoObs
    /\ hal_module = "LockCamera"
    /\ StageInit
    /\ ThreadInit
    /\ DisplayAbsent

BacklogNext == Construct \/ startCamera \/ AnalyzeStream

BacklogSpec == BacklogInit /\ [][BacklogNext]_vars

-----------------------------------------------------------------------------
(* The displays: initial states and next-state relation.                   *)

DisplayInit ==
    /\ hal_module = "LockDisplay"
    /\ display \in Displays
    /\ StageInit
    /\ CamAbsent
    /\ ThreadInit

DisplayNext == updateValue \/ mousePressEvent \/ paintEvent

DisplaySpec == DisplayInit /\ [][DisplayNext]_vars

-----------------------------------------------------------------------------
(* Properties of the lock cameras.                                         *)

Min(a, b) == IF a < b THEN a ELSE b

Max(a, b) == IF a > b THEN a ELSE b

IsGoodEstimate(e) == e.good

\* the estimates of a batch flagged good, and one field of a list of estimates
GoodOf(batch) == SelectSeq(batch, IsGoodEstimate)

FieldOf(batch, f) == [i \in 1 .. Len(batch) |-> batch[i][f]]

\* an event has been emitted and obs.last_batch is the batch it was made from
HasEmitted == cam_state = "running" /\ obs.n_emitted > 0

\* C3: for every camera and every split of the frame stream into bursts,
\* after each call of analyze the number of events emitted is
\* floor(n_analyzed / reps) and cnt is n_analyzed mod reps: one event per
\* reps frames, cnt reset after a good and after a bad batch, and carried
\* over from one burst to the next.
C3_OneEventPerReps ==
    cam_state = "running" =>
        /\ obs.n_emitted = cam.n_analyzed \div cam.reps
        /\ cam.cnt = cam.n_analyzed % cam.reps
        /\ Len(obs.cur_batch) = cam.cnt

\* two bursts, a bad batch emitted last, and a batch left open between bursts
C3_Witness ==
    /\ cam_state = "running"
    /\ obs.n_calls >= 2
    /\ obs.n_emitted >= 2
    /\ cam.cnt > 0
    /\ ~cameraUpdate.is_good
    /\ cam.n_dropped > 0

\* the fields of an emitted dict that carry an offset: all but is_good and sum
OffsetFieldsZero(d) ==
    \A f \in (DOMAIN d) \ {"is_good", "sum"} : d[f] = R(0)

\* the last batch held fewer than min_good good estimates
LastBatchBad == Len(GoodOf(obs.last_batch)) < cam.min_good

\* C4 as claimed: for every camera, a batch with fewer than min_good good
\* estimates is emitted with is_good false and every offset and sum field 0.
C4_Claimed ==
    (HasEmitted /\ LastBatchBad) =>
        /\ ~cameraUpdate.is_good
        /\ OffsetFieldsZero(cameraUpdate)
        /\ cameraUpdate.sum = R(0)

\* C4 as the code has it: a batch with fewer than min_good good estimates is
\* emitted with is_good false and every offset field 0; its sum is 0 for the
\* dual-spot and the axicon camera, and for the single-spot camera it is
\* sum_scale * (mean magnitude of all reps estimates) - sum_zero.
C4_BadBatchNeutral ==
    (HasEmitted /\ LastBatchBad) =>
        /\ ~cameraUpdate.is_good
        /\ OffsetFieldsZero(cameraUpdate)
        /\ cameraUpdate.sum =
              IF parameters.variant = "SS"
              THEN RSub(RMul(parameters.sum_scale,
                             RMean(FieldOf(obs.last_batch, "mag"))),
                        parameters.sum_zero)
              ELSE R(0)

\* a bad batch that holds a good estimate was emitted by the single-spot camera
C4_Witness ==
    /\ HasEmitted
    /\ LastBatchBad
    /\ parameters.variant = "SS"
    /\ Len(GoodOf(obs.last_batch)) > 0

\* the mean of one field over the good estimates of the last batch
GoodMean(f) == RMean(FieldOf(GoodOf(obs.last_batch), f))

\* the offset fields of a good batch, per camera, from the good estimates only
GoodOffsets(d) ==
    IF parameters.variant = "Axicon"
    THEN /\ d.offset = GoodMean("offset")
         /\ d.x_off1 = RAdd(GoodMean("x1_off"), R(parameters.roi1[1]))
         /\ d.y_off1 = RAdd(GoodMean("y1_off"), R(parameters.roi1[3]))
         /\ d.x_off2 = RAdd(GoodMean("x2_off"), R(parameters.roi2[1]))
         /\ d.y_off2 = RAdd(GoodMean("y2_off"), R(parameters.roi2[3]))
    ELSE /\ d.offset = RSub(GoodMean("y_off"), parameters.zero_dist)
         /\ d.y_off = RSub(GoodMean("y_off"), parameters.zero_dist)
         /\ d.x_off = GoodMean("x_off")

\* the sum of a good batch from the mean magnitude m
SumFrom(m) ==
    IF parameters.variant = "Axicon"
    THEN m
    ELSE RSub(RMul(parameters.sum_scale, m), parameters.sum_zero)

\* C5 as claimed: for every camera, a batch with at least min_good good
\* estimates is emitted with is_good true and every mean field, the sum
\* included, taken over the good estimates only.
C5_Claimed ==
    (HasEmitted /\ ~LastBatchBad) =>
        /\ cameraUpdate.is_good
        /\ GoodOffsets(cameraUpdate)
        /\ cameraUpdate.sum = SumFrom(GoodMean("mag"))

\* C5 as the code has it: a batch with at least min_good good estimates is
\* emitted with is_good true and every offset mean taken over the good
\* estimates only; so is the magnitude behind the sum of the dual-spot and
\* the axicon camera, while the single-spot camera takes the mean magnitude
\* of all reps estimates, bad ones included.
C5_GoodBatchMeans ==
    (HasEmitted /\ ~LastBatchBad) =>
        /\ cameraUpdate.is_good
        /\ GoodOffsets(cameraUpdate)
        /\ cameraUpdate.sum =
              SumFrom(IF parameters.variant = "SS"
                      THEN RMean(FieldOf(obs.last_batch, "mag"))
                      ELSE GoodMean("mag"))

\* a good batch that holds a bad estimate was emitted
C5_Witness ==
    /\ HasEmitted
    /\ ~LastBatchBad
    /\ Len(GoodOf(obs.last_batch)) < Len(obs.last_batch)
    /\ Len(GoodOf(obs.last_batch)) >= 1

\* the burst bookkeeping of one call of analyze that received lf frames
BurstHandled(lf, dropped, analysed) ==
    /\ dropped = Max(lf - max_backlog, 0)
    /\ analysed = [i \in 1 .. Min(lf, max_backlog) |-> Max(lf - max_backlog, 0) + i]

\* C6: a call of analyze that receives a burst of L frames drops the L - 20
\* oldest and analyses the 20 most recent, in arrival order, when L > 20,
\* and drops none and analyses all of them, in arrival order, when L <= 20.
C6_BacklogCap ==
    [][obs'.n_calls # obs.n_calls =>
          /\ BurstHandled(obs'.last_lf, cam'.n_dropped - cam.n_dropped,
                          obs'.analysed)
          /\ cam'.n_analyzed - cam.n_analyzed = Min(obs'.last_lf, max_backlog)]_vars

\* a burst longer than the backlog was handled: its first frame was dropped
C6_Witness ==
    /\ cam_state = "running"
    /\ obs.last_lf > max_backlog
    /\ Len(obs.analysed) = max_backlog
    /\ obs.analysed[1] = obs.last_lf - max_backlog + 1
    /\ cam.n_dropped > 0

\* C7: n_dropped never decreases, n_analyzed grows by one for each frame
\* analysed, and n_analyzed + n_dropped is the number of frames handed in.
C7_CountersAccount ==
    /\ [](cam_state = "running" => cam.n_analyzed + cam.n_dropped = obs.n_handed)
    /\ [][cam_state = "running" =>
             /\ cam'.n_dropped >= cam.n_dropped
             /\ obs'.n_calls # obs.n_calls =>
                   cam'.n_analyzed = cam.n_analyzed + Len(obs'.analysed)]_vars

\* two overloaded bursts were handled, frames dropped in each
C7_Witness ==
    /\ cam_state = "running"
    /\ obs.n_calls >= 2
    /\ cam.n_dropped > MaxOver
    /\ cam.n_analyzed = 2 * max_backlog

\* C8: no analyzer is constructed with reps < min_good: the construction
\* fails, and no such instance is started or analyses a frame.
C8_RepsAtLeastMinGood ==
    /\ cam_state \in {"constructed", "running"} => cam.reps >= cam.min_good
    /\ parameters.reps < parameters.min_good =>
          /\ cam_state \in {"new", "failed"}
          /\ cam = NoCam
          /\ obs.n_handed = 0
          /\ cameraUpdate = NoUpdate

\* the construction with reps < min_good was attempted and failed
C8_Witness ==
    /\ cam_state = "failed"
    /\ parameters.reps < parameters.min_good

\* an estimate taken from a frame with a region of zero total intensity
ZeroIntensity(e) == e.sum1 = R(0) \/ e.sum2 = R(0)

\* C9 as claimed: for every frame of the axicon camera with a region of zero
\* total intensity and every sum_threshold, the estimate is recorded as not
\* good and no undefined centroid reaches an emitted LockStatus.
C9_Claimed ==
    (cam_state = "running" /\ parameters.variant = "Axicon") =>
        /\ \A i \in 1 .. Len(obs.cur_batch) :
              ZeroIntensity(obs.cur_batch[i]) => ~obs.cur_batch[i].good
        /\ \A i \in 1 .. Len(obs.last_batch) :
              ZeroIntensity(obs.last_batch[i]) => ~obs.last_batch[i].good
        /\ obs.n_emitted > 0 =>
              \A f \in (DOMAIN cameraUpdate) \ {"is_good"} :
                  ~IsNaN(cameraUpdate[f])

-----------------------------------------------------------------------------
(* Properties of the Zaber modules.                                        *)
\* C1: the commands handed to mustRun on one functionality are run once
\* each and in the order of their submission, whatever maybeRun commands
\* and polling queries come between them, and none is dropped: what has
\* been run, followed by what is still waiting, is what was submitted.
C1_MustRunInOrder ==
    \A f \in Functionalities :
        log.must_log[f] = log.exec_must[f] \o MustPending(f)

\* of two commands handed to mustRun the first has been run, a maybeRun
\* command is at the stage, and the second is waiting for its turn
C1_Witness ==
    /\ log.must_log["fine"] = <<ConfigureCmd(<<1>>), StartCmd>>
    /\ log.exec_must["fine"] = <<ConfigureCmd(<<1>>)>>
    /\ buf["fine"].lane["must"] = [pc |-> "lock", cmd |-> StartCmd]
    /\ buf["fine"].lane["maybe"].pc = "run"

\* the stage driver a functionality talks to: coarse and fine share the
\* stage of ZaberZController, xy has the stage of ZaberZStage
StageOf(f) ==
    IF f \in {"coarse", "fine"} THEN "ZaberZController.stage" ELSE "ZaberZStage.stage"

Stages == {StageOf(f) : f \in Functionalities}

\* the contexts at a stage: lanes running a task, and the polling thread
\* between its lock and its unlock
AtStage(d) ==
    {c \in Functionalities \X Modes :
        StageOf(c[1]) = d /\ buf[c[1]].lane[c[2]].pc = "run"}
    \cup
    {c \in {<<"poll", "thread">>} :
        StageOf("xy") = d /\ poll.pc \in {"status_query", "position_query"}}

C10_GoAbsoluteClamps ==
    log.last_call.op = "goAbsolute" =>
        /\ log.last_submit.f = "fine"
        /\ log.last_submit.mode = "maybe"
        /\ log.last_submit.cmd.task = "zMoveTo"
        /\ log.last_submit.cmd.ret_signal = "zStagePosition"
        /\ Len(log.last_submit.cmd.args) = 1
        /\ log.last_call.args[1][1] < minimum =>
              log.last_submit.cmd.args[1] = Some(minimum)
        /\ log.last_call.args[1][1] > maximum =>
              log.last_submit.cmd.args[1] = Some(maximum)
        /\ (minimum <= log.last_call.args[1][1] /\ log.last_call.args[1][1] <= maximum) =>
              log.last_submit.cmd.args[1] = log.last_call.args[1]

\* goAbsolute(150) has handed over a move to 100
C10_Witness ==
    /\ log.last_call = [op |-> "goAbsolute", args |-> <<Some(150)>>]
    /\ log.last_submit.cmd.args = <<Some(maximum)>>
    /\ buf["fine"].lane["maybe"].cmd = log.last_submit.cmd

\* restrictZPos applied to its own result changes nothing
ClampIdempotent ==
    \A z \in ClampInputs : restrictZPos(restrictZPos(z)) = restrictZPos(z)

\* C11: clamping is idempotent: with any limits minimum <= maximum,
\* restrictZPos(restrictZPos(z)) = restrictZPos(z) for every z, and a
\* goAbsolute asked for the target commanded last commands that target
\* again.
C11_ClampIdempotent ==
    /\ []ClampIdempotent
    /\ [][(/\ log'.n_ops # log.n_ops
            /\ log.last_submit.cmd.task = "zMoveTo"
            /\ log'.last_call.args = log.last_submit.cmd.args)
           => log'.last_submit.cmd = log.last_submit.cmd]_vars

\* a move to maximum waits for the mutex, and goAbsolute has been asked
\* for maximum again: the command it hands over is the one waiting
C11_Witness ==
    /\ 0 < fine.minimum
    /\ fine.minimum < fine.maximum
    /\ fine.maximum < MaxLimit
    /\ log.n_ops = 2
    /\ buf["fine"].lane["maybe"].pc = "lock"
    /\ buf["fine"].lane["maybe"].cmd = MoveCmd(fine.maximum + 1)
    /\ log.last_call = [op |-> "goAbsolute", args |-> <<Some(fine.maximum)>>]
    /\ log.last_submit.cmd = buf["fine"].lane["maybe"].cmd

\* C12: goRelative(d) hands goAbsolute the position commanded last plus d,
\* the position commanded last being the target of the most recent
\* goAbsolute or goRelative request, whether or not that move has been run.
C12_Claimed ==
    [][(log'.n_ops # log.n_ops /\ log'.last_call.op = "goRelative")
       => log'.commanded =
              Some(restrictZPos(log.commanded[1] + log'.last_call.args[1][1]))]_vars

\* the commands functionality f holds: at the stage, waiting for the mutex,
\* queued, or kept as the next request
Held(f) ==
    {buf[f].lane[l].cmd : l \in {m \in Modes : buf[f].lane[m].pc # "idle"}}
    \cup {buf[f].must_queue[i] : i \in 1 .. Len(buf[f].must_queue)}
    \cup ({buf[f].next_request} \ {NoCmd})

\* a position that is a number within [self.minimum, self.maximum]
InRange(z_pos) ==
    /\ z_pos # None
    /\ fine.minimum <= z_pos[1]
    /\ z_pos[1] <= fine.maximum

\* C13: every move of the fine functionality that reaches the stage driver
\* (zMoveFine) has its target within [minimum, maximum], whether it comes
\* from goAbsolute, from goRelative or from the restore move of
\* completeZScan: so has every move still held, and so has the position
\* zMoveFine received last.
C13_FineMovesInRange ==
    /\ \A cmd \in Held("fine") : cmd.task = "zMoveTo" => InRange(cmd.args[1])
    /\ InRange(z_stage.fine_position)

\* the restore move of completeZScan is at the stage, on its way back to
\* where the scan began, from the maximum, where a request beyond the range
\* has taken the stage since
C13_Witness ==
    /\ buf["fine"].lane["must"].pc = "run"
    /\ buf["fine"].lane["must"].cmd =
          Cmd("zMoveTo", <<Some(minimum)>>, "zStagePosition")
    /\ z_stage.fine_position = Some(maximum)
    /\ log.commanded = Some(maximum)

\* the command of lane l of functionality f is run in this step
Ran(f, l) == buf[f].lane[l].pc = "run" /\ buf'[f].lane[l].pc # "run"

\* C14: a command that is run and was handed over with a ret_signal has
\* what its task returns (for zMoveTo the position moved to) emitted on
\* that signal once, in the step that runs it; a command without a
\* ret_signal has nothing emitted, and nothing is emitted in any other
\* step.
C14_ResultDeliveredOnce ==
    [][/\ \A f \in Functionalities, l \in Modes :
             Ran(f, l) =>
                 IF buf[f].lane[l].cmd.ret_signal = ""
                 THEN /\ log'.n_emitted = log.n_emitted
                      /\ log'.last_emit = log.last_emit
                 ELSE /\ log'.n_emitted =
                             [log.n_emitted EXCEPT
                                 ![buf[f].lane[l].cmd.ret_signal] = @ + 1]
                      /\ log'.last_emit.signal = buf[f].lane[l].cmd.ret_signal
                      /\ buf[f].lane[l].cmd.task = "zMoveTo" =>
                             log'.last_emit.value = buf[f].lane[l].cmd.args[1]
       /\ (\A f \in Functionalities, l \in Modes : ~Ran(f, l)) =>
             log'.n_emitted = log.n_emitted]_vars

\* a configureZScan, the scan start, a move to 42, the stage's
\* completeZScan and the restore move have been run: two emissions of
\* zStagePosition, one of zScanConfigComplete, none for the two commands
\* without a ret_signal, and the last result emitted is the position of the
\* restore move
C14_Witness ==
    /\ Len(log.exec_must["fine"]) = 4
    /\ log.exec_must["fine"][1].ret_signal = ""
    /\ log.exec_must["fine"][3].ret_signal = ""
    /\ log.n_emitted["zScanConfigComplete"] = 1
    /\ log.n_emitted["zStagePosition"] = 2
    /\ log.commanded = Some(42)
    /\ log.last_emit = [signal |-> "zStagePosition", value |-> Some(minimum)]
    /\ fine.z_position = Some(minimum)

\* how many commands functionality f holds
HeldCount(f) ==
    Cardinality({l \in Modes : buf[f].lane[l].pc # "idle"})
    + Len(buf[f].must_queue)
    + (IF buf[f].next_request # NoCmd THEN 1 ELSE 0)

\* how many commands handed to mustRun on f have not been run yet
MustOutstanding(f) == Len(log.must_log[f]) - Len(log.exec_must[f])

\* C15: the maybeRun commands one functionality holds stay bounded however
\* many are handed over: besides its mustRun commands a functionality
\* holds at most the maybeRun command under way and one to run next, and
\* the fine functionality, whose goAbsolute passes run_next = False, at most
\* the one under way; a command handed over meanwhile replaces the one to
\* run next or is discarded.
C15_MaybeRunBounded ==
    /\ \A f \in Functionalities : HeldCount(f) - MustOutstanding(f) <= 2
    /\ HeldCount("fine") - MustOutstanding("fine") <= 1
    /\ buf["fine"].next_request = NoCmd

\* three goAbsolute requests while the first waits for the mutex: the
\* functionality holds the first, the other two are gone
C15_Witness ==
    /\ log.n_ops = 3
    /\ log.last_call = [op |-> "goAbsolute", args |-> <<Some(150)>>]
    /\ log.commanded = Some(maximum)
    /\ buf["fine"].lane["maybe"] = [pc |-> "lock", cmd |-> MoveCmd(42)]
    /\ log.must_log["fine"] = <<>>
    /\ HeldCount("fine") = 1

\* C16: the device mutex is released after every device interaction, also
\* when the interaction raises: a mutex that is held is held by a context
\* that is at the device, a queue task being run or a polling query under
\* way, and never by one that has left it.
C16_Claimed ==
    /\ \A f \in Functionalities, l \in Modes :
          mutex[device_mutex(f)] = <<f, l>> => buf[f].lane[l].pc = "run"
    /\ mutex[poll_mutex] = <<"poll">> =>
          poll.pc \in {"status_query", "position_query"}

\* C17: every 'start film' message handled by ZaberZController has exactly
\* one 'ready to film': sent at once without z offsets, sent when the focus
\* lock answers that it is not in "Triggered Z Scan" mode or not locked,
\* and otherwise sent when the zScanConfigComplete signal of the scan start
\* arrives, also when completeZScan is asked for before that.  At any time
\* the messages sent, the answers of the focus lock awaited and the scan
\* starts whose signal is still due add up to the 'start film' messages.
C17_OneReadyPerStartFilm ==
    /\ log.n_start = log.n_ready + (IF ctl.film = "asked" THEN 1 ELSE 0) + ReadyDue
    /\ ctl.film = "idle" /\ ReadyDue = 0 => log.n_ready = log.n_start

\* a film with a z scan: completeZScan was asked for while the signal of
\* the scan start was still due, everything queued has been run, and one
\* 'ready to film' has been sent for the one 'start film'
C17_Witness ==
    /\ log.early_complete
    /\ log.n_start = 1
    /\ log.n_ready = 1
    /\ log.n_handled = 1
    /\ log.exec_must["fine"] =
          <<ConfigureCmd(<<1>>), StartCmd, CompleteCmd,
            Cmd("zMoveTo", <<Some(0)>>, "zStagePosition")>>
    /\ ctl.film = "idle"

\* a scan has been started and completed, and the fine functionality has
\* run everything it was handed
ScanDone ==
    /\ log.restore_target # None
    /\ ~log.scanning
    /\ HeldCount("fine") = 0

\* C18 as claimed: startZScan records the fine position of the time of the
\* call, and once the commands of the following completeZScan have been
\* run, no move having been asked for since startZScan, the fine stage is
\* at the recorded position.
C18_Claimed ==
    ScanDone /\ log.quiet_since_start => z_stage.fine_position = log.restore_target

\* C18: startZScan records the position the fine stage has at the time of
\* the call; if no move of the fine functionality is waiting when
\* completeZScan is called and none is asked for afterwards, the fine stage
\* is at the recorded position, and so is z_position, once the commands of
\* completeZScan have been run, also when completeZScan is called before
\* the start command has been run.
C18_RestoredAfterScan ==
    /\ log.scanning => fine.z_pos_prior_to_scan = log.recorded
    /\ log.restore_target # None /\ log.undisturbed /\ MustPending("fine") = <<>> =>
          /\ z_stage.fine_position = log.restore_target
          /\ fine.z_position = log.restore_target

\* the scan began at 0, a move to 42 was run during the scan, 'stop film'
\* called completeZScan with no move waiting, and everything has been run:
\* the stage is back at 0
C18_Witness ==
    /\ log.restore_target = Some(0)
    /\ log.undisturbed
    /\ log.commanded = Some(42)
    /\ log.last_call.op = "stopFilm"
    /\ log.n_emitted["zStagePosition"] = 2
    /\ HeldCount("fine") = 0
    /\ z_stage.fine_position = Some(0)

\* sequence s begins with sequence p
IsPrefix(p, s) ==
    /\ Len(p) <= Len(s)
    /\ \A i \in 1 .. Len(p) : p[i] = s[i]

\* in sequence s of commands every completeZScan of the stage is directly
\* followed by a move, if by anything, and every move directly follows one
CompleteThenRestore(s) ==
    \A i \in 1 .. Len(s) :
        /\ s[i] = CompleteCmd /\ i < Len(s) => s[i + 1].task = "zMoveTo"
        /\ s[i].task = "zMoveTo" => i > 1 /\ s[i - 1] = CompleteCmd

\* C19: completeZScan hands mustRun two commands, the stage's completeZScan
\* and then the move back to z_pos_prior_to_scan.  At the stage the
\* commands of the fine functionality are run in the order handed over: a
\* scan start handed over earlier is run before the complete, the complete
\* directly before its restore move, whatever maybeRun moves come between;
\* when the restore move is at the stage the stage has left scan mode.
C19_StartCompleteRestore ==
    /\ IsPrefix(log.exec_must["fine"], log.must_log["fine"])
    /\ CompleteThenRestore(log.must_log["fine"])
    /\ CompleteThenRestore(log.exec_must["fine"])
    /\ \A i \in 1 .. Len(log.exec_must["fine"]) :
          log.exec_must["fine"][i] = CompleteCmd =>
              \A j \in 1 .. Len(log.must_log["fine"]) :
                  j < i /\ log.must_log["fine"][j] = StartCmd =>
                      log.exec_must["fine"][j] = StartCmd
    /\ buf["fine"].lane["must"].pc = "run"
          /\ buf["fine"].lane["must"].cmd.task = "zMoveTo" => ~z_stage.is_zscan

\* completeZScan was called while the scan start was still waiting: the
\* start has been run since, the stage is in scan mode, the stage's
\* completeZScan is at the stage and the restore move is next
C19_Witness ==
    /\ log.early_complete
    /\ log.last_call.op = "completeZScan"
    /\ log.exec_must["fine"] = <<ConfigureCmd(<<1>>), StartCmd>>
    /\ z_stage.is_zscan
    /\ buf["fine"].lane["must"] = [pc |-> "run", cmd |-> CompleteCmd]
    /\ buf["fine"].must_queue = <<Cmd("zMoveTo", <<Some(0)>>, "zStagePosition")>>

\* this step handles a 'stop film' message
StopFilmStep ==
    /\ ctl.film = "filming"
    /\ ctl'.film = "idle"

\* C20 as claimed: on 'stop film' with a z scan active the scan is put
\* through completion, completeZScan handed over and the controller back
\* to idle, before the coarse position and the scan-mode flag are reported:
\* the response is made with the two commands of completeZScan handed over
\* and with the flag the idle controller has.
C20_Claimed ==
    [][StopFilmStep /\ z_stage.is_zscan =>
          /\ ctl'.acquisition[1].handed = Len(log'.must_log["fine"])
          /\ ctl'.acquisition[1].z_scan_mode = ctl'.in_z_scan_mode]_vars

\* C20: on 'stop film' the controller first makes the acquisition response,
\* with the coarse position of the stage driver and in_z_scan_mode as they
\* are when the message arrives; after that, if the stage driver is in scan
\* mode, it calls completeZScan, which hands over the stage's completeZScan
\* and the restore move, and it clears in_z_scan_mode.
C20_ReportThenComplete ==
    [][StopFilmStep =>
          /\ ctl'.acquisition = Some(Acquisition(ctl, z_stage, log.must_log["fine"]))
          /\ ~ctl'.in_z_scan_mode
          /\ log'.must_log["fine"] =
                IF z_stage.is_zscan
                THEN log.must_log["fine"] \o <<CompleteCmd, RestoreCmd>>
                ELSE log.must_log["fine"]]_vars

\* 'stop film' has arrived during a z scan: the response says scan mode
\* and was made before the two commands of completeZScan were handed over;
\* the controller is idle with the flag cleared
C20_Witness ==
    /\ log.last_call.op = "stopFilm"
    /\ ctl.film = "idle"
    /\ ~ctl.in_z_scan_mode
    /\ ctl.acquisition # None
    /\ ctl.acquisition[1].z_scan_mode
    /\ ctl.acquisition[1].handed = 2
    /\ log.must_log["fine"] =
          <<ConfigureCmd(<<1>>), StartCmd, CompleteCmd,
            Cmd("zMoveTo", <<Some(0)>>, "zStagePosition")>>

\* C21: the z_scan_mode of the response to 'stop film' is true exactly when
\* a z scan was started for the film that is stopped, that is when the focus
\* lock answered "Triggered Z Scan", locked, after its 'start film'; and
\* in_z_scan_mode is false after every 'stop film', so outside a film the
\* flag is false and a later film without a scan does not report true.
C21_ScanModeOfThisFilm ==
    [][/\ StopFilmStep =>
             /\ ctl'.acquisition[1].z_scan_mode = log.film_scan
             /\ ~ctl'.in_z_scan_mode
       /\ ctl'.film # "filming" => ~ctl'.in_z_scan_mode]_vars

\* a second film, for which the focus lock was asked and no scan was
\* started, has been stopped after a first one with a scan: it reports false
C21_Witness ==
    /\ log.last_call.op = "stopFilm"
    /\ log.n_start = 2
    /\ log.n_asked = 2
    /\ ~log.film_scan
    /\ ctl.acquisition = Some(Acquisition([ctl EXCEPT !.in_z_scan_mode = FALSE],
                                          z_stage, log.must_log["fine"]))
    /\ \E i \in DOMAIN log.must_log["fine"] : log.must_log["fine"][i] = StartCmd

\* the order of the steps of one polling cycle
PollOrder ==
    {<<"run", "while">>, <<"while", "status_lock">>, <<"while", "exited">>,
     <<"status_lock", "status_query">>, <<"status_query", "status_emit">>,
     <<"status_emit", "position_lock">>, <<"position_lock", "position_query">>,
     <<"position_query", "position_emit">>, <<"position_emit", "sleep">>,
     <<"sleep", "while">>}

PollHolds == mutex[poll_mutex] = <<"poll">>

\* C25: a polling cycle takes the device mutex, asks the status and releases
\* the mutex, notifies, takes the mutex, asks the position and releases it,
\* notifies, and sleeps, in this order.  The thread holds the mutex only
\* from a lock() to the one query behind it: the query's return releases
\* it, so no notification is emitted and no sleep is made with the mutex
\* held, and a hold has exactly one query.  (A query that raises ends the
\* thread, which then neither emits nor sleeps.)
C25_PollCycle ==
    [][/\ (poll'.pc # poll.pc /\ poll'.pc # Raised) =>
              <<poll.pc, poll'.pc>> \in PollOrder
       /\ PollHolds' => poll'.pc \in {"status_query", "position_query", Raised}
       /\ (~PollHolds /\ PollHolds') =>
              poll.pc \in {"status_lock", "position_lock"}
       /\ (PollHolds /\ poll'.pc # poll.pc) =>
              /\ poll.pc \in {"status_query", "position_query"}
              /\ poll'.pc # Raised => mutex'[poll_mutex] = Free]_vars

\* a cycle has got to its sleep: the status and the position have been
\* notified and the mutex is free for the position request of the timer,
\* which waits for it
C25_Witness ==
    /\ poll.pc = "sleep"
    /\ poll.response = "MOVING"
    /\ xy.is_moving = Some(TRUE)
    /\ xy.pos_dict # None
    /\ mutex[poll_mutex] = Free
    /\ buf["xy"].lane["must"].pc = "lock"

\* C26: a status that is neither "MOVING" nor "IDLE" does not stop the
\* loop: the thread goes on to the position query of the same cycle, emits
\* no moving/idle notification, and the functionality keeps the position
\* it knew, as it does when the position query has no position to report.
C26_ErrorStatusKeepsPolling ==
    [][/\ (poll.pc = "status_emit" /\ poll'.pc # poll.pc
             /\ poll.response \notin {"MOVING", "IDLE"}) =>
              /\ poll'.pc = "position_lock"
              /\ xy' = xy
       /\ (poll.pc = "position_emit" /\ poll'.pc # poll.pc /\ poll.sx = None) =>
              /\ poll'.pc = "sleep"
              /\ xy' = xy]_vars

\* after a cycle that notified "moving" and a position, a cycle with an
\* error status and no position has got to its sleep: both are as they were
C26_Witness ==
    /\ poll.pc = "sleep"
    /\ poll.response = "ERROR"
    /\ poll.sx = None
    /\ xy.is_moving = Some(TRUE)
    /\ xy.pos_dict # None

\* the position requests of handleUpdateTimer waiting or under way
PositionPending ==
    Len(SelectSeq(MustPending("xy"), LAMBDA c : c = PositionCmd))

\* C30 as claimed: at most one position request of handleUpdateTimer is
\* waiting or under way at any time.
C30_Claimed == PositionPending <= 1

\* the acquisition worker changes OffsetX or OffsetY of the camera
OffsetWritten ==
    \/ qthread'.camera.OffsetX # qthread.camera.OffsetX
    \/ qthread'.camera.OffsetY # qthread.camera.OffsetY

\* C22: OffsetX and OffsetY of the camera are written only by the
\* acquisition worker, in run(), with the acquisition stopped by the
\* stopAcquisition before and not yet started again, with params_mutex held
\* and after the burst fetched last has been analysed; a step of adjustAOI
\* in another context changes cur_offsetx/cur_offsety at most, never the
\* camera, and the worker applies what is staged.
C22_AoiAppliedBetweenBursts ==
    [][/\ OffsetWritten =>
             /\ qthread.pc = "setProperty"
             /\ qthread'.pc = "restart"
             /\ ~qthread.camera.acquiring
             /\ ~qthread'.camera.acquiring
             /\ qthread.params_mutex = "run"
             /\ qthread.log.analysed = qthread.log.n_bursts
             /\ qthread'.camera.OffsetX = qthread.cur_offsetx
             /\ qthread'.camera.OffsetY = qthread.cur_offsety
       /\ qthread'.caller # qthread.caller => qthread'.camera = qthread.camera
       /\ (qthread.pc = "restart" /\ qthread'.pc # qthread.pc) =>
             /\ qthread'.camera.acquiring
             /\ qthread'.old_offsetx = qthread.camera.OffsetX
             /\ qthread'.old_offsety = qthread.camera.OffsetY]_vars

\* adjustAOI(1, 0) was staged during a burst; the worker has stopped the
\* acquisition, written the offsets and started it again
C22_Witness ==
    /\ qthread.pc = "unlock"
    /\ qthread.camera = [OffsetX |-> 1, OffsetY |-> 0,
                         acquiring |-> TRUE, shutdown |-> FALSE]
    /\ qthread.cur_offsetx = 1
    /\ qthread.old_offsetx = 1
    /\ qthread.log.n_bursts = 1
    /\ qthread.log.analysed = 1

\* C23 as claimed: the staged offsets are read and written under
\* params_mutex, so that concurrent calls of adjustAOI are all reflected:
\* when no call is under way, cur_offsetx/cur_offsety are the offsets of all
\* the calls made, applied one after the other in the order in which they
\* held the mutex.
C23_Claimed ==
    (\A c \in Callers : qthread.caller[c].pc = "idle") =>
        /\ qthread.cur_offsetx = qthread.log.seq_x
        /\ qthread.cur_offsety = qthread.log.seq_y

\* C24 as claimed: the worker's read of zero_dist for an offset it emits
\* is never made while a context holds params_mutex in adjustZeroDist.
C24_Claimed ==
    [][(qthread.pc = "analyze" /\ qthread'.pc # qthread.pc
          /\ qthread'.log.emitted # None) =>
          \A c \in Callers : qthread.caller[c].pc \notin {"add", "unlock"}]_vars

\* C27: stopCamera clears the running flag and does not touch the camera;
\* camera.shutdown() is called only after wait() has returned, that is with
\* the acquisition worker out of run(), its last stopAcquisition made.
\* Likewise stopPolling clears the flag of the polling thread, and wait()
\* of the functionality gets past it only with the polling thread out of
\* run().
C27_WaitBeforeRelease ==
    [][/\ (qthread.main = "running" /\ qthread'.main # "running") =>
             /\ ~qthread'.running
             /\ qthread'.main = "wait"
             /\ qthread'.camera = qthread.camera
       /\ qthread'.camera.shutdown =>
             /\ qthread'.pc = "exited"
             /\ ~qthread'.camera.acquiring
       /\ (xy.wait = "running" /\ xy'.wait # "running") =>
             /\ ~poll'.running
             /\ xy'.wait = "stopPolling"
       /\ xy'.wait = "stopped" => QThreadWait(poll'.pc)]_vars

\* the camera has been shut down: the worker had fetched and analysed a
\* burst, left its loop and stopped the acquisition
C27_Witness ==
    /\ qthread.camera.shutdown
    /\ qthread.main = "done"
    /\ qthread.pc = "exited"
    /\ qthread.log.analysed = 1
    /\ ~qthread.running

\* the acquisition worker issues a command to the camera in this step:
\* getFrames, or one that changes the camera (start/stopAcquisition,
\* setProperty)
WorkerCommand ==
    /\ qthread'.pc # qthread.pc
    /\ \/ qthread.pc = "getFrames"
       \/ qthread'.camera # qthread.camera

\* the polling thread issues isStageMoving or getPosition in this step
PollCommand ==
    /\ poll.pc \in {"status_query", "position_query"}
    /\ poll'.pc # poll.pc

\* a command of the queue of the stage functionality is run in this step
QueuedRun ==
    \E l \in Modes : /\ buf["xy"].lane[l].pc = "run"
                      /\ buf'["xy"].lane[l] # buf["xy"].lane[l]

\* C28 as claimed: once the shutdown has begun (stopCamera or stopPolling
\* has cleared the running flag, wait() of the functionality has started)
\* no command is issued to the device: no getFrames, setProperty,
\* start/stopAcquisition, isStageMoving or getPosition, and no queued
\* command is run.
C28_Claimed ==
    [][/\ WorkerCommand => qthread.main = "running"
       /\ PollCommand => xy.wait = "running"
       /\ QueuedRun => xy.wait = "running"]_vars

\* C28: no command is issued to the device by a loop worker once the wait
\* for it has returned: none to the camera by the acquisition worker after
\* wait() in stopCamera returned, so none after camera.shutdown(), and
\* none by the polling thread after stopPolling returned.  Between the
\* clearing of the flag and that return the worker still issues the
\* commands of the cycle it is in, and the acquisition worker its last
\* stopAcquisition, the only command of a worker that has left the loop.
C28_NoCommandAfterWait ==
    [][/\ WorkerCommand =>
             /\ qthread.main # "done"
             /\ ~qthread.camera.shutdown
       /\ (WorkerCommand /\ qthread.pc = "final") =>
             /\ qthread.camera.acquiring
             /\ ~qthread'.camera.acquiring
             /\ qthread'.pc = "exited"
       /\ qthread.pc = "exited" => qthread'.pc = "exited"
       /\ PollCommand => xy.wait # "stopped"
       /\ QThreadWait(poll.pc) => poll'.pc = poll.pc]_vars

\* stopPolling has returned: the polling thread, which had reported a
\* position, found the flag cleared at the top of its loop and left run()
C28_Witness ==
    /\ xy.wait = "stopped"
    /\ poll.pc = "exited"
    /\ ~poll.running
    /\ xy.pos_dict # None

\* the colour of a painting that depends on the value
Shown(p, widget) ==
    IF widget = "QQPDSumDisplay" THEN p.foreground ELSE p.background

\* the class of value v for the thresholds of d, as the claim has it
ClaimedClass(d, v) ==
    IF v < d.scale_min \/ v > d.scale_max THEN "out_of_range"
    ELSE IF v < d.warning_low[1] \/ v > d.warning_high[1] THEN "warning"
    ELSE "normal"

\* C29 as claimed: with minimum < warning_low <= warning_high < maximum
\* the display puts a value in one of three classes, normal, warning and
\* out_of_range: values of different classes are never painted alike.
C29_Claimed ==
    (/\ display.painted # None
     /\ ~display.adjust_mode
     /\ display.warning_low # None /\ display.warning_high # None
     /\ display.scale_min < display.warning_low[1]
     /\ display.warning_low[1] <= display.warning_high[1]
     /\ display.warning_high[1] < display.scale_max) =>
        \A v \in Values :
            ClaimedClass(display, v) # ClaimedClass(display, display.value) =>
                Painted([display EXCEPT !.value = v]) # Painted(display)

\* the value is outside the warning thresholds that are set (the upper
\* threshold itself counts as outside for the sum display)
Outside(d) ==
    \/ d.warning_low # None /\ d.value < d.warning_low[1]
    \/ d.warning_high # None /\ d.value > d.warning_high[1]
    \/ /\ d.widget = "QQPDSumDisplay"
       /\ d.warning_high # None /\ d.value = d.warning_high[1]

Red(c) == c[1] = 255 /\ c[2] = 0 /\ c[3] = 0

\* C29: the displays put a value in exactly one of two classes, from the
\* value and the warning thresholds alone: red if the value is below
\* warning_low or above warning_high (the sum display: at or above), not
\* red otherwise.  minimum and maximum only scale the bar: a value beyond
\* them is painted like one between the warning threshold and the limit,
\* and the adjust mode of the stage display changes the colour of a value
\* within the thresholds but not its class.
C29_TwoClasses ==
    [][display'.painted # display.painted =>
          Red(Shown(display'.painted[1], display.widget)) = Outside(display)]_vars

\* the sum display has painted the value at its upper warning threshold,
\* within the scale, in red
C29_Witness ==
    /\ display # NoDisplay
    /\ display.widget = "QQPDSumDisplay"
    /\ display.painted # None
    /\ display.warning_low = Some(1)
    /\ display.warning_high = Some(2)
    /\ display.scale_max = 3
    /\ display.value = 2
    /\ display.painted = Some(Painted(display))
    /\ Red(display.painted[1].foreground)

\* 'start film' is handled in this step
StartFilmStep ==
    /\ ctl.film = "idle"
    /\ ctl'.film # "idle"

\* C31 as claimed: on 'start film' with no z scan requested, that is with
\* no relative z offsets, also after a 'new parameters' message with an
\* empty z_offsets string, 'ready to film' is sent at once and no 'focus
\* lock status' request.
C31_Claimed ==
    [][(StartFilmStep /\ ctl.rel_z_values \in {None, Some(<<>>)}) =>
          /\ log'.n_ready = log.n_ready + 1
          /\ log'.n_asked = log.n_asked
          /\ ctl'.film = "filming"]_vars

\* 'new parameters' is handled in this step
NewParametersStep ==
    /\ log'.last_call.op = "newParameters"
    /\ log'.n_ops = log.n_ops + 1

\* the command of the fine functionality run in this step is cmd
FineRuns(cmd) ==
    /\ Len(log'.exec_must["fine"]) = Len(log.exec_must["fine"]) + 1
    /\ log'.exec_must["fine"][Len(log'.exec_must["fine"])] = cmd

\* the places before place k at which a configureZScan was handed to mustRun
ConfiguredBefore(k) ==
    {i \in 1 .. k - 1 : log.must_log["fine"][i].task = "configureZScan"}

\* C32: configureZScan hands the stage's configureZScan to mustRun and
\* applies nothing itself: the call of 'new parameters' leaves the stage
\* driver, z_pos_prior_to_scan and the scan state as they are and adds the
\* command, with the offsets of the message, to the must-run commands; and
\* when the start command of a scan is run, every configureZScan handed
\* over before it has been run, and the offsets the stage has are those of
\* the last of them.
C32_ConfigureQueuedBeforeStart ==
    [][/\ NewParametersStep =>
             /\ z_stage' = z_stage
             /\ fine' = fine
             /\ ctl'.in_z_scan_mode = ctl.in_z_scan_mode
             /\ log'.must_log["fine"] =
                   Append(log.must_log["fine"], ConfigureCmd(ctl'.rel_z_values[1]))
             /\ MustPending("fine")' =
                   MustPending("fine") \o <<ConfigureCmd(ctl'.rel_z_values[1])>>
       /\ FineRuns(StartCmd) =>
             LET k == Len(log'.exec_must["fine"])
             IN  /\ log.must_log["fine"][k] = StartCmd
                 /\ \A i \in ConfiguredBefore(k) :
                        log.exec_must["fine"][i] = log.must_log["fine"][i]
                 /\ ConfiguredBefore(k) # {} =>
                        z_stage.offsets =
                           Some(log.must_log["fine"][
                                   CHOOSE i \in ConfiguredBefore(k) :
                                      \A j \in ConfiguredBefore(k) : j <= i].args[1])]_vars

\* 'new parameters' with offsets came twice and the scan of a film was
\* started; the start command has been run after both configureZScan
\* commands, with the offsets of the second at the stage
C32_Witness ==
    /\ z_stage.is_zscan
    /\ z_stage.offsets = Some(<<1>>)
    /\ log.exec_must["fine"] =
          <<ConfigureCmd(<<>>), ConfigureCmd(<<1>>), StartCmd>>

\* nothing of the fine functionality is waiting, under way or to be
\* handled, and no film is in progress
FineQuiet ==
    /\ ctl.film = "idle"
    /\ \A l \in Modes : buf["fine"].lane[l].pc = "idle"
    /\ buf["fine"].must_queue = <<>>
    /\ log.n_handled = log.n_emitted["zScanConfigComplete"]

\* C34 as claimed: after the 'stop film' of a film for which a scan start
\* was handed over the stage gets out of z scan mode, also when 'stop film'
\* is handled before the start command has been run: once everything
\* handed over has been run, the stage is not in z scan mode.
C34_Claimed == FineQuiet => ~z_stage.is_zscan

\* C35 as claimed: the z_position the fine functionality records is a
\* position within [minimum, maximum], whatever goRelative and goAbsolute
\* calls were made and whichever moves were run or discarded.
C35_Claimed == fine.z_position # None /\ InRange(fine.z_position)

\* C36 as claimed: whenever the controller calls completeZScan, on a 'stop
\* film' that finds the stage in z scan mode, z_pos_prior_to_scan is a
\* position recorded by a startZScan of the film that is stopped.
C36_Claimed ==
    [][(StopFilmStep /\ z_stage.is_zscan) =>
          /\ fine.z_pos_prior_to_scan # None
          /\ log.film_scan]_vars

\* C33 as claimed: once a stop is requested the worker gets to see
\* running = False, leaves run() and the wait() of the request returns:
\* stopCamera goes on to the shutdown, and wait() of the stage
\* functionality gets past stopPolling, however the request falls among
\* the steps of the worker, the thread's first steps included.
C33_Claimed ==
    /\ (qthread.main = "wait") ~> (qthread.main = "done")
    /\ (xy.wait = "stopPolling") ~> (xy.wait = "stopped")

\* C37: the staged offsets are within the camera's range at all times,
\* 0 <= cur_offsetx <= max_offsetx and 0 <= cur_offsety <= max_offsety,
\* whatever adjustAOI calls were made, and so are the copies of the worker
\* and the OffsetX/OffsetY it writes to the camera.
C37_OffsetsInRange ==
    /\ qthread.cur_offsetx \in 0 .. max_offsetx
    /\ qthread.cur_offsety \in 0 .. max_offsety
    /\ qthread.old_offsetx \in 0 .. max_offsetx
    /\ qthread.old_offsety \in 0 .. max_offsety
    /\ qthread.camera.OffsetX \in 0 .. max_offsetx
    /\ qthread.camera.OffsetY \in 0 .. max_offsety

\* adjustAOI(-1, 1) and adjustAOI(1, 0) were called one after the other
\* from the offsets (0, 0): the first stopped at 0 in x, and the worker
\* has written the offsets (1, 1) to the camera
C37_Witness ==
    /\ qthread.log.n_calls = 2
    /\ \A c \in Callers : qthread.caller[c].pc = "idle"
    /\ qthread.log.seq_x = 1
    /\ qthread.cur_offsetx = 1
    /\ qthread.cur_offsety = 1
    /\ qthread.camera.OffsetX = 1
    /\ qthread.camera.OffsetY = 1

\* the camera has the offsets that are staged
Applied ==
    /\ qthread.camera.OffsetX = qthread.cur_offsetx
    /\ qthread.camera.OffsetY = qthread.cur_offsety

\* C38: as long as the worker keeps running, staged offsets get to the
\* camera: from a state in which the staged offsets are not the camera's a
\* state is reached in which the camera has the offsets staged by then,
\* unless the running flag is cleared first; and whenever the worker is
\* through with the check of an iteration, about to unlock, old equals
\* cur, the camera has these offsets and the acquisition is started.
C38_StagedAoiApplied ==
    /\ [](qthread.pc = "unlock" =>
             /\ qthread.old_offsetx = qthread.cur_offsetx
             /\ qthread.old_offsety = qthread.cur_offsety
             /\ Applied
             /\ qthread.camera.acquiring)
    /\ (~Applied /\ qthread.running) ~> (Applied \/ ~qthread.running)

\* adjustAOI(-1, 1) was staged and the worker, still running, has written
\* it to the camera and started the acquisition again
C38_Witness ==
    /\ qthread.running
    /\ qthread.pc = "unlock"
    /\ qthread.log.n_calls = 1
    /\ qthread.cur_offsety = 1
    /\ qthread.old_offsety = 1
    /\ qthread.camera.OffsetY = 1
    /\ qthread.camera.acquiring

\* what slot i of the buffers of the dual-spot camera holds
SlotEstimate(i) ==
    [good |-> cam.good[i], mag |-> cam.mag[i],
     x_off |-> cam.x_off[i], y_off |-> cam.y_off[i]]

\* a slot as numpy.zeros left it
ZeroEstimate == [good |-> FALSE, mag |-> R(0), x_off |-> R(0), y_off |-> R(0)]

\* the dict of the dual-spot camera computed from the estimates of the last
\* batch and from nothing else
OwnBatchDict ==
    IF LastBatchBad
    THEN [is_good |-> FALSE, offset |-> R(0), sum |-> R(0),
          x_off |-> R(0), y_off |-> R(0)]
    ELSE [is_good |-> TRUE,
          offset |-> RSub(GoodMean("y_off"), parameters.zero_dist),
          sum |-> RSub(RMul(parameters.sum_scale, GoodMean("mag")),
                       parameters.sum_zero),
          x_off |-> GoodMean("x_off"),
          y_off |-> RSub(GoodMean("y_off"), parameters.zero_dist)]

\* C39: for the dual-spot camera, every reps >= 1 and every split of the
\* frames into bursts, each dict emitted is made of the reps estimates of
\* its own batch alone.  After every call of analyze, slot i of the buffers
\* holds estimate i of the batch under way for i < cnt, and beyond cnt what
\* the batch before left there (the initial zero before the first event):
\* when cnt reaches reps every slot has been written by the batch, and the
\* dict emitted is the one computed from these reps estimates.
C39_BatchOwnEstimates ==
    (cam_state = "running" /\ parameters.variant = "AF") =>
        /\ Len(obs.cur_batch) = cam.cnt
        /\ cam.cnt < cam.reps
        /\ \A i \in 0 .. (cam.reps - 1) :
              SlotEstimate(i) =
                 IF i < cam.cnt THEN obs.cur_batch[i + 1]
                 ELSE IF obs.n_emitted > 0 THEN obs.last_batch[i + 1]
                 ELSE ZeroEstimate
        /\ obs.n_emitted > 0 =>
              /\ Len(obs.last_batch) = cam.reps
              /\ cameraUpdate = OwnBatchDict

\* the dual-spot camera with reps = 2 after three bursts: two dicts
\* emitted, the second for a batch that began in one burst and ended in the
\* next, and a third batch under way whose first estimate has replaced
\* a different one in slot 0 while slot 1 still holds the batch before
C39_Witness ==
    /\ cam_state = "running"
    /\ parameters.variant = "AF"
    /\ cam.reps = 2
    /\ obs.n_calls = 3
    /\ obs.n_emitted = 2
    /\ cam.cnt = 1
    /\ obs.cur_batch[1] # obs.last_batch[1]
    /\ SlotEstimate(1) = obs.last_batch[2]
    /\ cameraUpdate.is_good

=============================================================================
